---- MODULE Spec2Model ----
(***************************************************************************)
(* A model of hdiff-apply's update engine (src/src/update/manager.rs and   *)
(* the executors it drives).                                               *)
(*                                                                         *)
(* Two specifications share this module:                                   *)
(*   SeqSpec  UpdateMgr::fix_update_sequence, run on the update_info list  *)
(*            that prepare_archives built from the discovered archives;    *)
(*   Spec     UpdateMgr::update, package by package and phase by phase,    *)
(*            with the rayon batches of the verifier and the patcher.      *)
(* Each specification keeps the other's variables at their idle values.    *)
(***************************************************************************)
EXTENDS Integers, Sequences, FiniteSets, TLC

VARIABLES
    \* ---- UpdateMgr fields read and written by fix_update_sequence
    client_version,   \* UpdateMgr.client_version
    update_info,      \* UpdateMgr.update_info
    \* ---- locals of fix_update_sequence
    seq_pc,           \* "idle" | "loop" | "after_loop" | "ok" | "err"
    seq_i,            \* index of the candidate the for loop visits next (1-based)
    cur_version,      \* cur_version
    valid_start_idx,  \* valid_start_idx: 0 is None, k is Some(k - 1)
    valid_count,      \* valid_count
    seq_error,        \* the anyhow error returned, or NoError
    \* ---- history of the walk
    discovered,       \* update_info as prepare_archives left it (line 203)
    verdicts,         \* verify_version's answer for each candidate visited
    \* ---- UpdateMgr fields and arguments read by update()
    update_mode,          \* UpdateMgr.update_mode
    do_integrity_check,   \* update()'s argument
    \* ---- position of update() and of the updater it runs
    pkg,              \* the package `for (i, update)` is at (1-based)
    pc,               \* "idle" | "dispatch" | a phase | "done" | "failed"
    diff_entries,     \* the diff entries the current updater loaded
    pending,          \* entries of the running rayon batch not yet taken
    batch_err,        \* the running batch has seen an Err
    run_error,        \* the error update() returned, or NoError
    \* ---- the install root
    files,            \* the paths that exist under game_path
    \* ---- what the current updater's patch batch did
    patch_result,     \* per entry: what patch_file was given and returned
    log,              \* entries with a "Failed to patch" line
    \* ---- history of the run
    started,          \* packages whose updater has been entered
    extracted,        \* packages whose archive update() extracted
    verified,         \* <<package, entry>> pairs verify_file accepted
    verify_failed,    \* <<package, entry>> pairs verify_file rejected
    materialised,     \* <<package, entry>> pairs create_hdiff_files wrote
    invoked,          \* <<package, entry>> pairs given to patch_file
    deleted_pkgs,     \* packages whose delete phase has run
    launch_failed,    \* packages in which Command::output() failed to launch
    \* ---- one operation of the engine run on its own
    op,               \* the operation under way, "none" when there is none
    op_in,            \* its arguments and what it reads of the install root
    op_st             \* its position, its locals and what it returned

seqVars == <<client_version, update_info, seq_pc, seq_i, cur_version,
             valid_start_idx, valid_count, seq_error, discovered, verdicts>>

runVars == <<update_mode, do_integrity_check, pkg, pc, diff_entries, pending,
             batch_err, run_error, files, patch_result, log, started,
             extracted, verified, verify_failed, materialised, invoked,
             deleted_pkgs, launch_failed>>

opVars == <<op, op_in, op_st>>

vars == <<seqVars, runVars, opVars>>

(***************************************************************************)
(* Bounds                                                                  *)
(***************************************************************************)
MaxCand == 3     \* archives discovered in the install root
MaxPatch == 3    \* patch numbers run over 0..MaxPatch
MaxPkgs == 2     \* packages in the update chain
MaxEntries == 2  \* diff entries per package
MaxSize == 2     \* largest file length and declared size
MaxLines == 3    \* lines of a deletefiles.txt
MaxDescs == 2     \* descriptors in a manifest
MaxChunkLen == 2  \* bytes in the chunk file
MaxContent == 6   \* characters in a marker file

\* The (major, minor) lines the candidates and the client are drawn from.
VersionLines == {<<1, 0>>, <<1, 1>>, <<2, 0>>}

(***************************************************************************)
(* BinaryVersion                                                           *)
(***************************************************************************)
BinaryVersion(ma, mi, pa) ==
    [major_version |-> ma, minor_version |-> mi, patch_version |-> pa]

Versions == {BinaryVersion(l[1], l[2], p) : l \in VersionLines, p \in 0..MaxPatch}

\* impl to_string for BinaryVersion: "{}.{}.{}" of the three decimal numbers,
\* modelled as the sequence of the three numbers the dots separate.
to_string(v) == <<v.major_version, v.minor_version, v.patch_version>>

\* The versions the manager compares come from BinaryVersion::parse, whose
\* pattern gives the patch number at most two digits: `patch_version + 1`
\* stays far below the u32 range here.
\* A plausible slip: any later patch of the same line is accepted.
verify_version_AnyLater(first_version, next_version) ==
    /\ first_version.major_version = next_version.major_version
    /\ first_version.minor_version = next_version.minor_version
    /\ next_version.patch_version >= first_version.patch_version + 1

verify_version(first_version, next_version) ==
    /\ first_version.major_version = next_version.major_version
    /\ first_version.minor_version = next_version.minor_version
    /\ next_version.patch_version = first_version.patch_version + 1

(***************************************************************************)
(* UpdateMgr::fix_update_sequence                                          *)
(***************************************************************************)
NoError == [kind |-> "none"]

\* UpdateInfo, as far as the sequencer reads it: the version and the archive
\* it came from (the archive's place in the discovery order).
UpdateInfo(v, a) == [update_version |-> v, archive_path |-> a]

\* Vec::drain(0..n): the list without its first n elements.
Drain(s, n) == SubSeq(s, n + 1, Len(s))

\* Vec::truncate(n)
Truncate(s, n) == IF Len(s) > n THEN SubSeq(s, 1, n) ELSE s

\* A plausible slip: the error names the first candidate.
LastVersionString_First(infos) ==
    IF infos = <<>> THEN "unknown" ELSE to_string(infos[1].update_version)

\* self.update_info.last().map(|u| u.update_version.to_string())
\*     .unwrap_or_else(|| "unknown".to_string())
LastVersionString(infos) ==
    IF infos = <<>> THEN "unknown" ELSE to_string(infos[Len(infos)].update_version)

\* A plausible slip: the walk goes on after a mismatch inside the chain.
BreaksLoop_Never(matched, start_idx) == FALSE

\* `else if valid_start_idx.is_some() { break; }`
BreaksLoop(matched, start_idx) == ~matched /\ start_idx # 0

\* One iteration of `for (i, update) in self.update_info.iter().enumerate()`.
WalkStep ==
    /\ seq_pc = "loop"
    /\ seq_i <= Len(update_info)
    /\ LET update == update_info[seq_i]
           matched == verify_version(cur_version, update.update_version)
       IN  /\ verdicts' = Append(verdicts, matched)
           /\ IF matched
              THEN /\ valid_start_idx' =
                        IF valid_start_idx = 0 THEN seq_i ELSE valid_start_idx
                   /\ cur_version' = update.update_version
                   /\ valid_count' = valid_count + 1
              ELSE UNCHANGED <<valid_start_idx, cur_version, valid_count>>
           /\ seq_pc' = IF BreaksLoop(matched, valid_start_idx) \/ seq_i = Len(update_info)
                        THEN "after_loop" ELSE "loop"
           /\ seq_i' = seq_i + 1
    /\ UNCHANGED <<client_version, update_info, seq_error, discovered>>
    /\ UNCHANGED <<runVars, opVars>>

\* `if valid_count == 0 { return Err(...) }`
FixFail ==
    /\ seq_pc = "after_loop"
    /\ valid_count = 0
    /\ seq_error' = [kind |-> "IncompatibleVersion",
                     from |-> to_string(client_version),
                     to   |-> LastVersionString(update_info)]
    /\ seq_pc' = "err"
    /\ UNCHANGED <<client_version, update_info, seq_i, cur_version,
                   valid_start_idx, valid_count, discovered, verdicts>>
    /\ UNCHANGED <<runVars, opVars>>

\* `drain(0..start_idx); truncate(valid_count); Ok(())`
FixOk ==
    /\ seq_pc = "after_loop"
    /\ valid_count # 0
    /\ update_info' =
          IF valid_start_idx # 0
          THEN Truncate(Drain(update_info, valid_start_idx - 1), valid_count)
          ELSE update_info
    /\ seq_pc' = "ok"
    /\ UNCHANGED <<client_version, seq_i, cur_version, valid_start_idx,
                   valid_count, seq_error, discovered, verdicts>>
    /\ UNCHANGED <<runVars, opVars>>

(***************************************************************************)
(* The install root, diff entries and the external patcher                 *)
(***************************************************************************)
PatchMethods == {"Hdiff", "Ldiff", "CustomMade"}

\* Some(Archives), Some(Legacy(Hdiff)), Some(Legacy(Ldiff)), Some(Legacy(CustomMade))
UpdateModes == {"Archives", "LegacyHdiff", "LegacyLdiff", "LegacyCustomMade"}

Entries == 1..MaxEntries

\* Paths under game_path. EmptyPath is PathBuf::new().
EmptyPath == <<>>
AssetPath(e) == <<"StarRail_Data", "asset", e>>
OldPath(e) == <<"StarRail_Data", "old", e>>
HdiffPath(e) == <<"StarRail_Data", "hdiff", e>>
ObsoletePath == <<"StarRail_Data", "obsolete">>
PersistentPath == <<"StarRail_Data", "Persistent", "save">>
RootUntrackedPath == <<"untracked">>

\* The three shapes of a diff entry: the source is another file than the
\* target, the source is the target (patched in place), or the source name
\* is empty (a brand-new file).
EntryKinds == {"move", "inplace", "new"}

\* types::DiffEntry, the fields the executors read.
DiffEntry(kind, e) ==
    [source_file_name |-> CASE kind = "move" -> OldPath(e)
                            [] kind = "inplace" -> AssetPath(e)
                            [] kind = "new" -> EmptyPath,
     target_file_name |-> AssetPath(e),
     patch_file_name  |-> HdiffPath(e)]

\* What an updater can load: HDiff::load_diff_entries and
\* LDiff::create_diff_entries give entries of any shape; HDiff::load_custom_map
\* gives remote names, patched in place from `{remote_name}.hdiff`.
\* Entries are interchangeable, so the maps are taken up to a renaming of
\* the entries: the kinds come in the order move, inplace, new.
KindRank(kind) == CASE kind = "move" -> 1 [] kind = "inplace" -> 2 [] kind = "new" -> 3

LoadableMaps(method) ==
    IF method = "CustomMade"
    THEN {[e \in Entries |-> DiffEntry("inplace", e)]}
    ELSE {[e \in Entries |-> DiffEntry(k[e], e)] :
             k \in {f \in [Entries -> EntryKinds] :
                       \A a, b \in Entries : a < b => KindRank(f[a]) <= KindRank(f[b])}}

\* The patch blobs and new files an hdiff or custom archive unpacks into
\* game_path (7z x -aoa).
ArchiveFiles == {HdiffPath(e) : e \in Entries}

InitialFiles(mode) ==
    {AssetPath(e) : e \in Entries} \cup {OldPath(e) : e \in Entries}
    \cup {ObsoletePath, PersistentPath, RootUntrackedPath}
    \cup (IF mode \in {"LegacyHdiff", "LegacyCustomMade"} THEN ArchiveFiles ELSE {})

\* How one run of hpatchz.exe ends: Command::output() failed (the process
\* was not launched), or it exited with a status and some stderr.
PatcherOutcomes ==
    {[launched |-> FALSE, success |-> FALSE, stderr_empty |-> TRUE],
     [launched |-> TRUE, success |-> TRUE, stderr_empty |-> TRUE]}
    \cup {[launched |-> TRUE, success |-> FALSE, stderr_empty |-> q] : q \in BOOLEAN}

\* The external patcher can only succeed on files it can read: the patch
\* blob, and the source unless the source path is empty.
PatcherCanSucceed(source_file, patch_file, fs) ==
    /\ patch_file \in fs
    /\ source_file = EmptyPath \/ source_file \in fs

\* fs::remove_file with its result dropped (`let _ =`).
RemoveFile(fs, path) == fs \ {path}

\* A plausible slip: a launch failure is reported like a failed patch.
patch_file_LaunchFailureIsFalse(source_file, patch_blob, target_file, out, fs) ==
    IF out.launched /\ out.success
    THEN [ret |-> "Ok(true)",
          files |-> IF source_file # target_file
                    THEN RemoveFile(RemoveFile(fs \cup {target_file}, patch_blob), source_file)
                    ELSE RemoveFile(fs \cup {target_file}, patch_blob)]
    ELSE IF out.launched /\ out.stderr_empty
    THEN [ret |-> "Ok(true)", files |-> fs]
    ELSE [ret |-> "Ok(false)", files |-> fs]

\* HPatchZ::patch_file: the value it returns and the install root it leaves.
patch_file(source_file, patch_blob, target_file, out, fs) ==
    IF ~out.launched
    THEN [ret |-> "Err", files |-> fs]
    ELSE IF out.success
    THEN [ret |-> "Ok(true)",
          files |-> IF source_file # target_file
                    THEN RemoveFile(RemoveFile(fs \cup {target_file}, patch_blob), source_file)
                    ELSE RemoveFile(fs \cup {target_file}, patch_blob)]
    ELSE IF ~out.stderr_empty
    THEN [ret |-> "Ok(false)", files |-> fs]
    ELSE [ret |-> "Ok(true)", files |-> fs]

\* Verifier::verify_file on a source file: File::open, the size comparison,
\* then the MD5 comparison.
verify_file(exists, size_matches, md5_matches) ==
    IF ~exists THEN "Io"
    ELSE IF ~size_matches THEN "FileSizeMismatchError"
    ELSE IF ~md5_matches THEN "Md5MismatchError"
    ELSE "Ok"

\* File::open(game_path.join(name)) gives a readable file. With an empty
\* name the path is game_path itself, a directory, which cannot be read.
Readable(name, fs) == name # EmptyPath /\ name \in fs

\* A plausible slip: the batch's error is dropped.
BatchResult_AlwaysOk(err) == "Ok"

\* What rayon's try_for_each (or collect into a Result) returns once the
\* batch has ended.
BatchResult(err) == IF err THEN "Err" ELSE "Ok"

\* A plausible slip: the batch is left while entries are still to be run.
BatchEnded_Early(left, err) == TRUE

\* A rayon batch ends when every entry has been run, or, after an Err, as
\* soon as the workers stop taking entries.
BatchEnded(left, err) == left = {} \/ err

(***************************************************************************)
(* The deletion phase                                                      *)
(***************************************************************************)
\* The deletion lists a package may carry.
DeleteLists == SUBSET {ObsoletePath}

\* The loop of DeleteFiles: every listed path is removed, a failure is only
\* printed.
RemoveListed(list, fs) == fs \ list

\* DeleteFiles::remove as UpdateMgr calls it: whether deletefiles.txt was
\* present, and the install root left.
DeleteFilesRemove(present, list, fs) ==
    [present |-> present, files |-> IF present THEN RemoveListed(list, fs) ELSE fs]

\* LDiff::handle_delete_files: the files walk_dir_excluding finds under
\* StarRail_Data (not below a directory named Persistent) whose path is no
\* asset name of the manifest.
UntrackedFiles(fs) ==
    {f \in fs : /\ Len(f) >= 1 /\ f[1] = "StarRail_Data"
                /\ ~(\E k \in 2..(Len(f) - 1) : f[k] = "Persistent")
                /\ f \notin {AssetPath(e) : e \in Entries}}

\* The order in which walk_dir_excluding lists the files of StarRail_Data
\* (the directory order, taken as fixed).
WalkOrder ==
    <<ObsoletePath>> \o [e \in Entries |-> OldPath(e)]
    \o [e \in Entries |-> HdiffPath(e)] \o [e \in Entries |-> AssetPath(e)]

\* files_to_delete, in walk order.
FilesToDelete(fs) ==
    LET untracked == UntrackedFiles(fs)
    IN  SelectSeq(WalkOrder, LAMBDA f : f \in untracked)

\* `files_to_delete.into_iter().try_for_each(fs::remove_file)` stopping at
\* an error after k removals (k = 0 also when the walk itself fails).
RemovedBeforeError(k, files_to_delete) == {files_to_delete[j] : j \in 1..k}

(***************************************************************************)
(* UpdateMgr::update                                                       *)
(***************************************************************************)
IsLegacy == update_mode # "Archives"

\* The updaters update() runs: one per package of the chain, or the one
\* legacy updater.
NumJobs == IF IsLegacy THEN 1 ELSE Len(update_info)

MethodOf(p) ==
    CASE update_mode = "Archives" -> update_info[p].patch_method
      [] update_mode = "LegacyHdiff" -> "Hdiff"
      [] update_mode = "LegacyLdiff" -> "Ldiff"
      [] update_mode = "LegacyCustomMade" -> "CustomMade"

\* A plausible slip: the integrity check is run after the patch phase.
Phases_VerifyAfterPatch(method, legacy, check) ==
    CASE method = "Hdiff" ->
            <<"load">> \o (IF legacy THEN <<>> ELSE <<"extract">>)
            \o <<"patch">> \o (IF check THEN <<"verify">> ELSE <<>>) \o <<"delete">>
      [] method = "Ldiff" ->
            <<"load">> \o <<"materialise", "patch">>
            \o (IF check THEN <<"verify">> ELSE <<>>) \o <<"delete">>
      [] method = "CustomMade" ->
            (IF legacy THEN <<>> ELSE <<"extract">>) \o <<"load", "patch", "delete">>

\* The phases of one updater, in the order its body runs them:
\* start_hdiff_updater / start_legacy_hdiff_updater, start_ldiff_updater /
\* start_legacy_ldiff_updater, start_custom_hdiff_updater /
\* start_legacy_custom_hdiff_updater.
Phases(method, legacy, check) ==
    CASE method = "Hdiff" ->
            <<"load">> \o (IF legacy THEN <<>> ELSE <<"extract">>)
            \o (IF check THEN <<"verify">> ELSE <<>>) \o <<"patch", "delete">>
      [] method = "Ldiff" ->
            <<"load">> \o (IF check THEN <<"verify">> ELSE <<>>)
            \o <<"materialise", "patch", "delete">>
      [] method = "CustomMade" ->
            (IF legacy THEN <<>> ELSE <<"extract">>) \o <<"load", "patch", "delete">>

CurPhases == Phases(MethodOf(pkg), IsLegacy, do_integrity_check)

\* The phase after ph, or "end" after the last one.
PhaseAfter(ph) ==
    LET i == CHOOSE k \in 1..Len(CurPhases) : CurPhases[k] = ph
    IN  IF i = Len(CurPhases) THEN "end" ELSE CurPhases[i + 1]

BatchPhases == {"verify", "materialise", "patch"}

\* Control moves on to phase ph of the current updater; at "end" the updater
\* returns Ok and update() goes to the next package or returns Ok.
Enter(ph) ==
    /\ IF ph = "end"
       THEN IF pkg < NumJobs
            THEN pc' = "dispatch" /\ pkg' = pkg + 1
            ELSE pc' = "done" /\ pkg' = pkg
       ELSE pc' = ph /\ pkg' = pkg
    /\ pending' = IF ph \in BatchPhases THEN Entries ELSE {}
    /\ batch_err' = FALSE
    /\ UNCHANGED run_error

NotPatched == [ret |-> "none"]

\* The updater returns: its locals (the diff map, the patch results, what
\* its patch batch printed) are dropped.
DropLocals ==
    /\ diff_entries' = <<>>
    /\ patch_result' = [e \in Entries |-> NotPatched]
    /\ log' = {}

\* A plausible slip: the updater's error is recorded and update() goes on
\* with the next package.
Fail_Continues(kind) ==
    /\ IF pkg < NumJobs
       THEN pc' = "dispatch" /\ pkg' = pkg + 1
       ELSE pc' = "failed" /\ pkg' = pkg
    /\ run_error' = [kind |-> kind, pkg |-> pkg]
    /\ DropLocals
    /\ UNCHANGED <<pending, batch_err>>

\* A plausible slip: after the error the package is started over.
Fail_RetriesPackage(kind) ==
    /\ pc' = "dispatch"
    /\ run_error' = [kind |-> kind, pkg |-> pkg]
    /\ DropLocals
    /\ UNCHANGED <<pkg, pending, batch_err>>

\* `?`: the updater returns the error and update() returns it.
Fail(kind) ==
    /\ pc' = "failed"
    /\ run_error' = [kind |-> kind, pkg |-> pkg]
    /\ DropLocals
    /\ UNCHANGED <<pkg, pending, batch_err>>

\* update() enters the updater of the package it is at.
Dispatch ==
    /\ pc = "dispatch"
    /\ started' = started \cup {pkg}
    /\ Enter(CurPhases[1])
    /\ UNCHANGED <<update_mode, do_integrity_check, diff_entries, files,
                   patch_result, log, extracted, verified,
                   verify_failed, materialised, invoked, deleted_pkgs,
                   launch_failed>>
    /\ UNCHANGED <<seqVars, opVars>>

\* load_diff_entries / LDiff::new and create_diff_entries / load_custom_map.
Load ==
    /\ pc = "load"
    /\ \/ /\ \E m \in LoadableMaps(MethodOf(pkg)) : diff_entries' = m
          /\ Enter(PhaseAfter("load"))
          /\ UNCHANGED <<patch_result, log>>
       \/ Fail("Load")
    /\ UNCHANGED <<update_mode, do_integrity_check, files,
                   started, extracted, verified, verify_failed, materialised,
                   invoked, deleted_pkgs, launch_failed>>
    /\ UNCHANGED <<seqVars, opVars>>

\* SevenZip::extract_hdiff_to / extract_custom_hdiff_to into game_path.
Extract ==
    /\ pc = "extract"
    /\ \/ /\ files' = files \cup ArchiveFiles
          /\ extracted' = extracted \cup {pkg}
          /\ Enter(PhaseAfter("extract"))
          /\ UNCHANGED <<diff_entries, patch_result, log>>
       \/ /\ \E w \in SUBSET ArchiveFiles : files' = files \cup w
          /\ Fail("Extract")
          /\ UNCHANGED extracted
    /\ UNCHANGED <<update_mode, do_integrity_check, started, verified, verify_failed, materialised, invoked,
                   deleted_pkgs, launch_failed>>
    /\ UNCHANGED <<seqVars, opVars>>

\* One entry of Verifier::verify_all's par_iter().try_for_each.
VerifyEntry(e) ==
    /\ pc = "verify"
    /\ e \in pending
    /\ \E size_matches, md5_matches \in BOOLEAN :
          LET r == verify_file(Readable(diff_entries[e].source_file_name, files),
                               size_matches, md5_matches)
          IN  IF r = "Ok"
              THEN /\ verified' = verified \cup {<<pkg, e>>}
                   /\ UNCHANGED <<verify_failed, batch_err>>
              ELSE /\ verify_failed' = verify_failed \cup {<<pkg, e>>}
                   /\ batch_err' = TRUE
                   /\ UNCHANGED verified
    /\ pending' = pending \ {e}
    /\ UNCHANGED <<update_mode, do_integrity_check, pkg, pc, diff_entries,
                   run_error, files, patch_result, log, started, extracted,
                   materialised, invoked, deleted_pkgs, launch_failed>>
    /\ UNCHANGED <<seqVars, opVars>>

\* verify_all returns; run_integrity_check(...)? in the updater.
VerifyJoin ==
    /\ pc = "verify"
    /\ BatchEnded(pending, batch_err)
    /\ IF BatchResult(batch_err) = "Err"
       THEN Fail("Verify")
       ELSE Enter(PhaseAfter("verify")) /\ UNCHANGED <<diff_entries, patch_result, log>>
    /\ UNCHANGED <<update_mode, do_integrity_check, files, started, extracted, verified,
                   verify_failed, materialised, invoked, deleted_pkgs,
                   launch_failed>>
    /\ UNCHANGED <<seqVars, opVars>>

\* One chunk descriptor of LDiff::create_hdiff_files: the blob is read from
\* its chunk file and written under its patch name, or the read fails.
Materialise(e) ==
    /\ pc = "materialise"
    /\ e \in pending
    /\ \/ /\ files' = files \cup {diff_entries[e].patch_file_name}
          /\ materialised' = materialised \cup {<<pkg, e>>}
          /\ UNCHANGED batch_err
       \/ /\ batch_err' = TRUE
          /\ UNCHANGED <<files, materialised>>
    /\ pending' = pending \ {e}
    /\ UNCHANGED <<update_mode, do_integrity_check, pkg, pc, diff_entries,
                   run_error, patch_result, log, started, extracted, verified,
                   verify_failed, invoked, deleted_pkgs, launch_failed>>
    /\ UNCHANGED <<seqVars, opVars>>

\* create_hdiff_files returns.
MaterialiseJoin ==
    /\ pc = "materialise"
    /\ BatchEnded(pending, batch_err)
    /\ IF BatchResult(batch_err) = "Err"
       THEN Fail("Materialise")
       ELSE Enter(PhaseAfter("materialise")) /\ UNCHANGED <<diff_entries, patch_result, log>>
    /\ UNCHANGED <<update_mode, do_integrity_check, files, started, extracted, verified,
                   verify_failed, materialised, invoked, deleted_pkgs,
                   launch_failed>>
    /\ UNCHANGED <<seqVars, opVars>>

\* One entry of HDiff::patch / LDiff::patch / HDiff::patch_custom.
PatchEntry(e) ==
    /\ pc = "patch"
    /\ e \in pending
    /\ \E out \in PatcherOutcomes :
          LET d == diff_entries[e]
              r == patch_file(d.source_file_name, d.patch_file_name,
                              d.target_file_name, out, files)
          IN  /\ (out.launched /\ out.success) =>
                    PatcherCanSucceed(d.source_file_name, d.patch_file_name, files)
              /\ files' = r.files
              /\ patch_result' = [patch_result EXCEPT ![e] =
                    [ret |-> r.ret, outcome |-> out, removed |-> files \ r.files]]
              /\ batch_err' = (batch_err \/ r.ret = "Err")
              /\ log' = IF r.ret = "Ok(false)" THEN log \cup {e} ELSE log
              /\ launch_failed' = IF out.launched THEN launch_failed
                                                  ELSE launch_failed \cup {pkg}
    /\ invoked' = invoked \cup {<<pkg, e>>}
    /\ pending' = pending \ {e}
    /\ UNCHANGED <<update_mode, do_integrity_check, pkg, pc, diff_entries,
                   run_error, started, extracted, verified, verify_failed,
                   materialised, deleted_pkgs>>
    /\ UNCHANGED <<seqVars, opVars>>

\* patch returns; hdiff.patch(...)? in the updater.
PatchJoin ==
    /\ pc = "patch"
    /\ BatchEnded(pending, batch_err)
    /\ IF BatchResult(batch_err) = "Err"
       THEN Fail("PatchLaunch")
       ELSE Enter(PhaseAfter("patch")) /\ UNCHANGED <<diff_entries, patch_result, log>>
    /\ UNCHANGED <<update_mode, do_integrity_check, files, started, extracted, verified,
                   verify_failed, materialised, invoked, deleted_pkgs,
                   launch_failed>>
    /\ UNCHANGED <<seqVars, opVars>>

\* delete_files.remove()?, and for Ldiff `if !remove()? { handle_delete_files()? }`.
DeletePhase ==
    /\ pc = "delete"
    /\ deleted_pkgs' = deleted_pkgs \cup {pkg}
    /\ \E present \in BOOLEAN, list \in DeleteLists :
          LET r == DeleteFilesRemove(present, list, files)
              files_to_delete == FilesToDelete(r.files)
          IN  /\ ~present => list = {}
              /\ IF ~r.present /\ MethodOf(pkg) = "Ldiff"
                 THEN \/ /\ files' = r.files \ UntrackedFiles(r.files)
                         /\ Enter("end")
                         /\ DropLocals
                      \/ /\ \E k \in 0..Len(files_to_delete) :
                               /\ k < Len(files_to_delete) \/ k = 0
                               /\ files' = r.files \ RemovedBeforeError(k, files_to_delete)
                         /\ Fail("Reconcile")
                 ELSE /\ files' = r.files
                      /\ Enter("end")
                      /\ DropLocals
    /\ UNCHANGED <<update_mode, do_integrity_check, started, extracted, verified,
                   verify_failed, materialised, invoked, launch_failed>>
    /\ UNCHANGED <<seqVars, opVars>>

\* No operation is run on its own.
OpIdle ==
    /\ op = "none"
    /\ op_in = [none |-> TRUE]
    /\ op_st = [pc |-> "idle"]

\* update() has not been called.
RunIdle ==
    /\ update_mode = "None"
    /\ do_integrity_check = FALSE
    /\ pkg = 0
    /\ pc = "idle"
    /\ diff_entries = <<>>
    /\ pending = {}
    /\ batch_err = FALSE
    /\ run_error = NoError
    /\ files = {}
    /\ patch_result = <<>>
    /\ log = {}
    /\ started = {}
    /\ extracted = {}
    /\ verified = {}
    /\ verify_failed = {}
    /\ materialised = {}
    /\ invoked = {}
    /\ deleted_pkgs = {}
    /\ launch_failed = {}

\* Lists of 1..n elements of S.
SeqsUpTo(S, n) == UNION {[1..k -> S] : k \in 1..n}

\* prepare_archives has filled update_info, one UpdateInfo per archive in
\* discovery order (Archives mode: at least one archive), and calls
\* fix_update_sequence.
SeqInit ==
    /\ client_version \in Versions
    /\ \E vs \in SeqsUpTo(Versions, MaxCand) :
          update_info = [k \in 1..Len(vs) |-> UpdateInfo(vs[k], k)]
    /\ discovered = update_info
    /\ seq_pc = "loop"
    /\ seq_i = 1
    /\ cur_version = client_version
    /\ valid_start_idx = 0
    /\ valid_count = 0
    /\ seq_error = NoError
    /\ verdicts = <<>>
    /\ RunIdle
    /\ OpIdle

SeqNext == WalkStep \/ FixFail \/ FixOk

SeqSpec == SeqInit /\ [][SeqNext]_vars

\* prepare_updates has succeeded and update(do_integrity_check) is called:
\* in Archives mode update_info is the chain fix_update_sequence kept, in a
\* legacy mode it is empty.
Init ==
    /\ update_mode \in UpdateModes
    /\ do_integrity_check \in BOOLEAN
    /\ client_version = BinaryVersion(1, 0, 0)
    /\ IF update_mode = "Archives"
       THEN \E ms \in SeqsUpTo(PatchMethods, MaxPkgs) :
               update_info = [k \in 1..Len(ms) |->
                                 [update_version |-> BinaryVersion(1, 0, k),
                                  archive_path |-> k,
                                  patch_method |-> ms[k]]]
       ELSE update_info = <<>>
    /\ discovered = update_info
    /\ seq_pc = "idle"
    /\ seq_i = 1
    /\ cur_version = client_version
    /\ valid_start_idx = 0
    /\ valid_count = 0
    /\ seq_error = NoError
    /\ verdicts = <<>>
    /\ pkg = 1
    /\ pc = "dispatch"
    /\ diff_entries = <<>>
    /\ pending = {}
    /\ batch_err = FALSE
    /\ run_error = NoError
    /\ files = InitialFiles(update_mode)
    /\ patch_result = [e \in Entries |-> NotPatched]
    /\ log = {}
    /\ started = {}
    /\ extracted = {}
    /\ verified = {}
    /\ verify_failed = {}
    /\ materialised = {}
    /\ invoked = {}
    /\ deleted_pkgs = {}
    /\ launch_failed = {}
    /\ OpIdle

Next ==
    \/ Dispatch
    \/ Load
    \/ Extract
    \/ \E e \in Entries : VerifyEntry(e)
    \/ VerifyJoin
    \/ \E e \in Entries : Materialise(e)
    \/ MaterialiseJoin
    \/ \E e \in Entries : PatchEntry(e)
    \/ PatchJoin
    \/ DeletePhase

Spec == Init /\ [][Next]_vars

(***************************************************************************)
(* Operations run on their own                                             *)
(***************************************************************************)
\* fix_update_sequence is not running.
SeqIdle ==
    /\ client_version = BinaryVersion(1, 0, 0)
    /\ update_info = <<>>
    /\ discovered = <<>>
    /\ seq_pc = "idle"
    /\ seq_i = 1
    /\ cur_version = client_version
    /\ valid_start_idx = 0
    /\ valid_count = 0
    /\ seq_error = NoError
    /\ verdicts = <<>>

\* game_path.join(name)
JoinGamePath(name) == <<"game_path">> \o name

(***************************************************************************)
(* Verifier::verify_file, statement by statement                           *)
(***************************************************************************)
\* MD5 digests as `format!("{:x}", ..)` prints them, in lowercase hex.
FileDigests == {"0a", "1b"}

\* What a diff map may declare as source_file_md5.
DeclaredDigests == FileDigests \cup {"0A"}

FileSizes == 0..MaxSize

NoFile == [exists |-> FALSE]

\* The file at game_path.join(source_file_name): absent, or its length and
\* the digest of its content.
DiskFiles == {NoFile} \cup [exists : {TRUE}, size : FileSizes, md5 : FileDigests]

\* The fields of verifier::DiffEntry.
VerifierEntries ==
    [source_file_name : {OldPath(1), AssetPath(1)},
     source_file_size : FileSizes,
     source_file_md5  : DeclaredDigests]

VfInit ==
    /\ op = "verify_file"
    /\ op_in \in [entry : VerifierEntries, file : DiskFiles]
    /\ op_st = [pc |-> "open", content_read |-> FALSE, result |-> [kind |-> "none"]]
    /\ SeqIdle
    /\ RunIdle

VfReturn(result) == op_st' = [op_st EXCEPT !.pc = "returned", !.result = result]

\* `File::open(&source_file_path).map_err(..)?`
VfOpen ==
    /\ op = "verify_file" /\ op_st.pc = "open"
    /\ IF op_in.file.exists
       THEN op_st' = [op_st EXCEPT !.pc = "size"]
       ELSE VfReturn([kind |-> "Io",
                      file_name |-> JoinGamePath(op_in.entry.source_file_name)])
    /\ UNCHANGED <<op, op_in, seqVars, runVars>>

\* A plausible slip: the size comparison is left out.
VfSize_NotCompared ==
    /\ op = "verify_file" /\ op_st.pc = "size"
    /\ op_st' = [op_st EXCEPT !.pc = "hash"]
    /\ UNCHANGED <<op, op_in, seqVars, runVars>>

\* `file.seek(SeekFrom::End(0))` and `if file_size != entry.source_file_size`
VfSize ==
    /\ op = "verify_file" /\ op_st.pc = "size"
    /\ IF op_in.file.size # op_in.entry.source_file_size
       THEN VfReturn([kind |-> "FileSizeMismatchError",
                      expected |-> op_in.entry.source_file_size,
                      got |-> op_in.file.size,
                      file_name |-> JoinGamePath(op_in.entry.source_file_name)])
       ELSE op_st' = [op_st EXCEPT !.pc = "hash"]
    /\ UNCHANGED <<op, op_in, seqVars, runVars>>

\* The read loop feeding the hasher.
VfHash ==
    /\ op = "verify_file" /\ op_st.pc = "hash"
    /\ op_st' = [op_st EXCEPT !.pc = "md5", !.content_read = TRUE]
    /\ UNCHANGED <<op, op_in, seqVars, runVars>>

\* `if md5_hash != *expected_hash`
VfCompare ==
    /\ op = "verify_file" /\ op_st.pc = "md5"
    /\ IF op_in.file.md5 # op_in.entry.source_file_md5
       THEN VfReturn([kind |-> "Md5MismatchError",
                      expected |-> op_in.entry.source_file_md5,
                      got |-> op_in.file.md5,
                      file_name |-> JoinGamePath(op_in.entry.source_file_name)])
       ELSE VfReturn([kind |-> "Ok"])
    /\ UNCHANGED <<op, op_in, seqVars, runVars>>

VfNext == VfOpen \/ VfSize \/ VfHash \/ VfCompare

VerifySpec == VfInit /\ [][VfNext]_vars

(***************************************************************************)
(* UpdateMgr::detect_update_mode                                           *)
(***************************************************************************)
\* What detect_update_mode reads: the archives UpdateMgr::new found, and
\* which marker files exist in the install root.
InstallRoots ==
    [archives : 0..MaxCand, manifest : BOOLEAN, hdiffmap : BOOLEAN,
     hdifffiles : BOOLEAN, deletefiles : BOOLEAN]

\* A plausible slip: the test for hdiff and ldiff files in the same place
\* is missing.
LegacyMode_NoAmbiguityTest(has_hdiff_files, has_ldiff_files, has_custom_hdiff) ==
    IF has_ldiff_files THEN "LegacyLdiff"
    ELSE IF has_hdiff_files THEN "LegacyHdiff"
    ELSE IF has_custom_hdiff THEN "LegacyCustomMade"
    ELSE "Err(NoUpdateSource)"

\* A plausible slip: the custom pair is tested before hdiffmap.json.
LegacyMode_CustomBeforeHdiff(has_hdiff_files, has_ldiff_files, has_custom_hdiff) ==
    IF has_hdiff_files /\ has_ldiff_files THEN "Err(HdiffAndLdiff)"
    ELSE IF has_ldiff_files THEN "LegacyLdiff"
    ELSE IF has_custom_hdiff THEN "LegacyCustomMade"
    ELSE IF has_hdiff_files THEN "LegacyHdiff"
    ELSE "Err(NoUpdateSource)"

\* Lines 89-105: the mode the flags give, or the error bailed with.
LegacyMode(has_hdiff_files, has_ldiff_files, has_custom_hdiff) ==
    IF has_hdiff_files /\ has_ldiff_files THEN "Err(HdiffAndLdiff)"
    ELSE IF has_ldiff_files THEN "LegacyLdiff"
    ELSE IF has_hdiff_files THEN "LegacyHdiff"
    ELSE IF has_custom_hdiff THEN "LegacyCustomMade"
    ELSE "Err(NoUpdateSource)"

\* UpdateMgr::new has run (update_mode: None) and prepare_updates calls
\* detect_update_mode.
DmInit ==
    /\ op = "detect_update_mode"
    /\ op_in \in InstallRoots
    /\ op_st = [pc |-> "archives", result |-> "none"]
    /\ SeqIdle
    /\ RunIdle

\* `if !self.update_archives_paths.is_empty() { .. return Ok(mode) }`
DmArchives ==
    /\ op = "detect_update_mode" /\ op_st.pc = "archives"
    /\ IF op_in.archives # 0
       THEN /\ update_mode' = "Archives"
            /\ op_st' = [pc |-> "returned", result |-> "Archives"]
       ELSE /\ op_st' = [op_st EXCEPT !.pc = "legacy"]
            /\ UNCHANGED update_mode
    /\ UNCHANGED <<op, op_in, seqVars, do_integrity_check, pkg, pc, diff_entries,
                   pending, batch_err, run_error, files, patch_result, log,
                   started, extracted, verified, verify_failed, materialised,
                   invoked, deleted_pkgs, launch_failed>>

\* The exists() tests and the choice of the legacy mode.
DmLegacy ==
    /\ op = "detect_update_mode" /\ op_st.pc = "legacy"
    /\ LET has_hdiff_files == op_in.hdiffmap
           has_ldiff_files == op_in.manifest
           has_custom_hdiff == op_in.deletefiles /\ op_in.hdifffiles
           mode == LegacyMode(has_hdiff_files, has_ldiff_files, has_custom_hdiff)
       IN  /\ op_st' = [pc |-> "returned", result |-> mode]
           /\ update_mode' = IF mode \in UpdateModes THEN mode ELSE update_mode
    /\ UNCHANGED <<op, op_in, seqVars, do_integrity_check, pkg, pc, diff_entries,
                   pending, batch_err, run_error, files, patch_result, log,
                   started, extracted, verified, verify_failed, materialised,
                   invoked, deleted_pkgs, launch_failed>>

DmNext == DmArchives \/ DmLegacy

DetectSpec == DmInit /\ [][DmNext]_vars

(***************************************************************************)
(* DeleteFiles::execute, statement by statement                            *)
(***************************************************************************)
\* The paths a deletion list names.
ListedPaths == {ObsoletePath, OldPath(1)}

\* A line of deletefiles.txt after trim(): a path, or nothing (blank line).
ListLines == ListedPaths \cup {EmptyPath}

\* What fs::remove_file meets at a path: a file it can remove, a file it
\* cannot remove (permission), or no file.
PathStates == {"file", "locked", "missing"}

\* Where reading deletefiles.txt fails: at line k, never, or at File::open.
IoNever == 0
IoAtOpen == 0 - 1
IoFailures(lines) == {IoNever, IoAtOpen} \cup 1..Len(lines)

DfInit ==
    /\ op = "DeleteFiles::execute"
    /\ \E present \in BOOLEAN,
          lines \in {<<>>} \cup SeqsUpTo(ListLines, MaxLines),
          disk \in [ListedPaths -> PathStates] :
          \E io_error \in IoFailures(lines) :
             /\ ~present => (lines = <<>> /\ io_error = IoNever)
             /\ op_in = [present |-> present, lines |-> lines, disk |-> disk,
                         io_error |-> io_error]
             /\ op_st = [pc |-> "exists", i |-> 1, disk |-> disk,
                         attempted |-> <<>>, log |-> <<>>, result |-> "none"]
    /\ SeqIdle
    /\ RunIdle

\* `if !self.deletefiles_path.exists() { return Err(NotFound) }`, File::open
DfOpen ==
    /\ op = "DeleteFiles::execute" /\ op_st.pc = "exists"
    /\ op_st' = IF ~op_in.present
                THEN [op_st EXCEPT !.pc = "returned", !.result = "Err(NotFound)"]
                ELSE IF op_in.io_error = IoAtOpen
                THEN [op_st EXCEPT !.pc = "returned", !.result = "Err(Io)"]
                ELSE [op_st EXCEPT !.pc = "lines"]
    /\ UNCHANGED <<op, op_in, seqVars, runVars>>

\* A plausible slip: `fs::remove_file(&file_path)?`
RemoveOutcome_Propagated(state) == IF state = "file" THEN "removed" ELSE "return"

\* `if let Err(e) = fs::remove_file(&file_path) { print_err(..) }`: what the
\* loop does with the result of one removal.
RemoveOutcome(state) == IF state = "file" THEN "removed" ELSE "logged"

\* One iteration of `for line in reader.lines()`.
DfLine ==
    /\ op = "DeleteFiles::execute" /\ op_st.pc = "lines"
    /\ op_st.i <= Len(op_in.lines)
    /\ LET line == op_in.lines[op_st.i]
           outcome == RemoveOutcome(op_st.disk[line])
       IN  op_st' =
             IF op_in.io_error = op_st.i
             THEN [op_st EXCEPT !.pc = "returned", !.result = "Err(Io)"]
             ELSE IF line = EmptyPath
             THEN [op_st EXCEPT !.i = @ + 1]
             ELSE IF outcome = "removed"
             THEN [op_st EXCEPT !.i = @ + 1,
                                !.attempted = Append(@, line),
                                !.disk = [@ EXCEPT ![line] = "missing"]]
             ELSE IF outcome = "logged"
             THEN [op_st EXCEPT !.i = @ + 1,
                                !.attempted = Append(@, line),
                                !.log = Append(@, line)]
             ELSE [op_st EXCEPT !.pc = "returned", !.result = "Err(Io)",
                                !.attempted = Append(@, line)]
    /\ UNCHANGED <<op, op_in, seqVars, runVars>>

\* The lines are exhausted: `Ok(())`
DfEnd ==
    /\ op = "DeleteFiles::execute" /\ op_st.pc = "lines"
    /\ op_st.i > Len(op_in.lines)
    /\ op_st' = [op_st EXCEPT !.pc = "returned", !.result = "Ok"]
    /\ UNCHANGED <<op, op_in, seqVars, runVars>>

DfNext == DfOpen \/ DfLine \/ DfEnd

DeleteSpec == DfInit /\ [][DfNext]_vars

(***************************************************************************)
(* LDiff::handle_delete_files on its own (ReconcileSpec)                   *)
(***************************************************************************)

\* The files whose fs::remove_file can fail (in use, read-only).
LockablePaths == {ObsoletePath, OldPath(1)}

\* handle_delete_files is entered with some tree under game_path; the
\* manifest's asset names are AssetPath(e).
RcInit ==
    /\ op = "handle_delete_files"
    /\ \E fs \in SUBSET InitialFiles("Ldiff"), locked \in SUBSET LockablePaths,
          walk_fails \in BOOLEAN :
          /\ op_in = [files |-> fs, locked |-> locked, walk_fails |-> walk_fails]
          /\ op_st = [pc |-> "walk", files |-> fs, files_to_delete |-> <<>>,
                      result |-> "none"]
    /\ SeqIdle
    /\ RunIdle

\* `walk_dir_excluding(&star_rail_data_path, "Persistent")?` and the filter
\* against ldiff_asset_set.
RcWalk ==
    /\ op = "handle_delete_files" /\ op_st.pc = "walk"
    /\ op_st' = IF op_in.walk_fails
                THEN [op_st EXCEPT !.pc = "returned", !.result = "Err(Io)"]
                ELSE [op_st EXCEPT !.pc = "remove",
                                   !.files_to_delete = FilesToDelete(op_st.files)]
    /\ UNCHANGED <<op, op_in, seqVars, runVars>>

\* One step of `files_to_delete.into_iter().try_for_each(fs::remove_file)?`
RcRemove ==
    /\ op = "handle_delete_files" /\ op_st.pc = "remove"
    /\ op_st.files_to_delete # <<>>
    /\ LET f == Head(op_st.files_to_delete)
       IN  op_st' = IF f \in op_in.locked
                    THEN [op_st EXCEPT !.pc = "returned", !.result = "Err(Io)"]
                    ELSE [op_st EXCEPT !.files = @ \ {f},
                                       !.files_to_delete = Tail(@)]
    /\ UNCHANGED <<op, op_in, seqVars, runVars>>

\* Every removal succeeded: `Ok(())`
RcEnd ==
    /\ op = "handle_delete_files" /\ op_st.pc = "remove"
    /\ op_st.files_to_delete = <<>>
    /\ op_st' = [op_st EXCEPT !.pc = "returned", !.result = "Ok"]
    /\ UNCHANGED <<op, op_in, seqVars, runVars>>

RcNext == RcWalk \/ RcRemove \/ RcEnd

ReconcileSpec == RcInit /\ [][RcNext]_vars

(***************************************************************************)
(* LDiff::create_diff_entries and LDiff::create_hdiff_files                *)
(* (MaterialiseSpec)                                                       *)
(***************************************************************************)

\* The chunk file in the ldiff folder: MaxChunkLen bytes, all different.
ChunkBytes == [i \in 1..MaxChunkLen |-> i]

\* asset.asset_name and update_asset.original_file_path of a descriptor.
ManifestAssets == {AssetPath(1), AssetPath(2)}
OriginalPaths == {EmptyPath, OldPath(1)}

\* One (asset, update_asset) pair of the manifest.
Descriptors ==
    [asset_name : ManifestAssets,
     original_file_path : OriginalPaths,
     hdiff_file_in_chunk_offset : 0..MaxChunkLen,
     hdiff_file_size : 0..(MaxChunkLen + 1)]

\* The pairs in the order of the flat_map over assets: the descriptors of
\* one asset are adjacent, and the assets are taken up to renaming.
AssetRank(asset_name) == IF asset_name = AssetPath(1) THEN 1 ELSE 2

Manifests ==
    {m \in {<<>>} \cup SeqsUpTo(Descriptors, MaxDescs) :
        /\ Len(m) > 0 => m[1].asset_name = AssetPath(1)
        /\ \A i, j \in 1..Len(m) :
              i < j => AssetRank(m[i].asset_name) <= AssetRank(m[j].asset_name)}

\* A plausible slip: the patch blob is always named after the asset.
PatchFileName_AlwaysAsset(asset_name, original_file_path) ==
    Append(asset_name, ".hdiff")

\* `if original_file_path.is_empty() { format!("{}.hdiff", asset_name) }
\*  else { format!("{}.hdiff", original_file_path) }`
PatchFileName(asset_name, original_file_path) ==
    IF original_file_path = EmptyPath
    THEN Append(asset_name, ".hdiff")
    ELSE Append(original_file_path, ".hdiff")

\* The DiffEntry create_diff_entries builds for one descriptor.
LdiffEntry(d) ==
    [source_file_name |-> d.original_file_path,
     target_file_name |-> d.asset_name,
     patch_file_name  |-> PatchFileName(d.asset_name, d.original_file_path)]

\* A plausible slip: `read` instead of `read_exact`, keeping what was there.
ReadExact_Short(bytes, offset, size) ==
    [ok |-> TRUE,
     bytes |-> SubSeq(bytes, offset + 1,
                      IF offset + size <= Len(bytes) THEN offset + size ELSE Len(bytes))]

\* seek(SeekFrom::Start(offset)) then read_exact into a buffer of `size`
\* bytes: UnexpectedEof when fewer bytes are left.
ReadExact(bytes, offset, size) ==
    IF offset + size <= Len(bytes)
    THEN [ok |-> TRUE, bytes |-> SubSeq(bytes, offset + 1, offset + size)]
    ELSE [ok |-> FALSE, bytes |-> <<>>]

\* The closure of create_hdiff_files for descriptor i: read the region,
\* then File::create(game_path.join(patch_file_name)) and write_all.
MaterialiseOne(d, i, st) ==
    LET r == ReadExact(ChunkBytes, d.hdiff_file_in_chunk_offset, d.hdiff_file_size)
        name == PatchFileName(d.asset_name, d.original_file_path)
    IN  IF ~r.ok
        THEN [st EXCEPT !.ok = FALSE]
        ELSE [disk |-> {b \in st.disk : b.name # name}
                          \cup {[name |-> name, bytes |-> r.bytes]},
              writers |-> st.writers \cup {i},
              ok |-> TRUE]

\* The par_iter of create_hdiff_files: the closures run in some order, and
\* none is started once one has failed.
RECURSIVE MaterialiseAll(_, _, _)
MaterialiseAll(manifest, order, st) ==
    IF order = <<>> \/ ~st.ok
    THEN st
    ELSE MaterialiseAll(manifest, Tail(order),
                        MaterialiseOne(manifest[Head(order)], Head(order), st))

ParOrders(n) ==
    {p \in [1..n -> 1..n] : \A i, j \in 1..n : p[i] = p[j] => i = j}

MatInit ==
    /\ op = "create_hdiff_files"
    /\ \E manifest \in Manifests, chunk_exists \in BOOLEAN :
          op_in = [manifest |-> manifest, chunk_exists |-> chunk_exists]
    /\ op_st = [pc |-> "create_diff_entries", diff_entries |-> <<>>, disk |-> {},
                writers |-> {}, result |-> "none"]
    /\ SeqIdle
    /\ RunIdle

\* create_diff_entries: every descriptor's chunk file must exist.
MatEntries ==
    /\ op = "create_hdiff_files" /\ op_st.pc = "create_diff_entries"
    /\ op_st' = IF op_in.manifest # <<>> /\ ~op_in.chunk_exists
                THEN [op_st EXCEPT !.pc = "returned", !.result = "Err(NotFound)"]
                ELSE [op_st EXCEPT !.pc = "create_hdiff_files",
                         !.diff_entries = [i \in 1..Len(op_in.manifest) |->
                                              LdiffEntry(op_in.manifest[i])]]
    /\ UNCHANGED <<op, op_in, seqVars, runVars>>

\* create_hdiff_files, `results?; Ok(())`
MatBlobs ==
    /\ op = "create_hdiff_files" /\ op_st.pc = "create_hdiff_files"
    /\ \E order \in ParOrders(Len(op_in.manifest)) :
          LET st == MaterialiseAll(op_in.manifest, order,
                                   [disk |-> {}, writers |-> {}, ok |-> TRUE])
          IN  op_st' = [op_st EXCEPT !.pc = "returned",
                           !.disk = st.disk,
                           !.writers = st.writers,
                           !.result = IF st.ok THEN "Ok" ELSE "Err(UnexpectedEof)"]
    /\ UNCHANGED <<op, op_in, seqVars, runVars>>

MatNext == MatEntries \/ MatBlobs

MaterialiseSpec == MatInit /\ [][MatNext]_vars

(***************************************************************************)
(* verify_version over the whole u32 range (VersionSpec)                   *)
(***************************************************************************)

\* A u32 as its two 16-bit halves, the high one first.
HalfMax == 65535
U32(hi, lo) == <<hi, lo>>
U32_MAX == U32(HalfMax, HalfMax)

\* The u32 values tried: the smallest ones, the largest ones, and the two
\* around the carry between the halves.
U32Samples ==
    {U32(0, k) : k \in 0..MaxPatch}
    \cup {U32(HalfMax, HalfMax - k) : k \in 0..MaxPatch}
    \cup {U32(0, HalfMax), U32(1, 0)}

\* x + 1 on u32 where it does not overflow.
AddOne(x) == IF x[2] < HalfMax THEN U32(x[1], x[2] + 1) ELSE U32(x[1] + 1, 0)

\* `next_version.patch_version == first_version.patch_version + 1`: at
\* u32::MAX the addition panics when the build has overflow checks and
\* wraps to 0 when it has not.
PatchIsNext(first_patch, next_patch, overflow_checks) ==
    IF first_patch = U32_MAX
    THEN IF overflow_checks THEN "panic"
         ELSE IF next_patch = U32(0, 0) THEN "true" ELSE "false"
    ELSE IF next_patch = AddOne(first_patch) THEN "true" ELSE "false"

\* verify_version on u32 fields; `&&` evaluates the addition only when major
\* and minor are equal.
verify_version_u32(first_version, next_version, overflow_checks) ==
    IF /\ first_version.major_version = next_version.major_version
       /\ first_version.minor_version = next_version.minor_version
    THEN PatchIsNext(first_version.patch_version, next_version.patch_version,
                     overflow_checks)
    ELSE "false"

U32Versions ==
    [major_version : {U32(0, 1), U32(0, 2)},
     minor_version : {U32(0, 0), U32(0, 1)},
     patch_version : U32Samples]

VvInit ==
    /\ op = "verify_version"
    /\ \E first_version, next_version \in U32Versions, overflow_checks \in BOOLEAN :
          op_in = [first_version |-> first_version, next_version |-> next_version,
                   overflow_checks |-> overflow_checks]
    /\ op_st = [pc |-> "call", result |-> "none"]
    /\ SeqIdle
    /\ RunIdle

VvCall ==
    /\ op = "verify_version" /\ op_st.pc = "call"
    /\ op_st' = [pc |-> "returned",
                 result |-> verify_version_u32(op_in.first_version, op_in.next_version,
                                               op_in.overflow_checks)]
    /\ UNCHANGED <<op, op_in, seqVars, runVars>>

VvNext == VvCall

VersionSpec == VvInit /\ [][VvNext]_vars

(***************************************************************************)
(* BinaryVersion::parse, the regex-based one of utils/binary_version.rs    *)
(* and the older dash-based one of binary_version.rs (ParseSpec)           *)
(***************************************************************************)

\* The characters a marker file is made of here.
Digits == {"1", "2"}
MarkerChars == Digits \cup {".", "-"}

DigitValue(c) == IF c = "1" THEN 1 ELSE 2

\* str::parse::<u32> of a string: fails on the empty string and on a
\* character that is no digit. (The strings here are too short to exceed
\* the u32 range.)
RECURSIVE DecimalValue(_)
DecimalValue(str) ==
    IF str = <<>> THEN 0
    ELSE 10 * DecimalValue(SubSeq(str, 1, Len(str) - 1)) + DigitValue(str[Len(str)])

ParsesAsU32(str) == str # <<>> /\ \A k \in 1..Len(str) : str[k] \in Digits

\* The last position of the run of digits that starts at position i.
RECURSIVE RunEnd(_, _)
RunEnd(content, i) ==
    IF i < Len(content) /\ content[i + 1] \in Digits THEN RunEnd(content, i + 1) ELSE i

\* The pattern (\d+)\.(\d+)\.(\d{1,2}) matched at position i: the greedy
\* runs of digits, the dots, and one or two digits.
MatchAt(content, i) ==
    IF i > Len(content) \/ content[i] \notin Digits
    THEN [ok |-> FALSE]
    ELSE LET e1 == RunEnd(content, i)
         IN  IF ~(e1 + 2 <= Len(content) /\ content[e1 + 1] = "."
                  /\ content[e1 + 2] \in Digits)
             THEN [ok |-> FALSE]
             ELSE LET e2 == RunEnd(content, e1 + 2)
                  IN  IF ~(e2 + 2 <= Len(content) /\ content[e2 + 1] = "."
                           /\ content[e2 + 2] \in Digits)
                      THEN [ok |-> FALSE]
                      ELSE LET e3 == IF e2 + 3 <= Len(content)
                                        /\ content[e2 + 3] \in Digits
                                     THEN e2 + 3 ELSE e2 + 2
                           IN  [ok |-> TRUE,
                                caps |-> <<SubSeq(content, i, e1),
                                           SubSeq(content, e1 + 2, e2),
                                           SubSeq(content, e2 + 2, e3)>>]

\* re.captures(&content): the leftmost match.
RECURSIVE CapturesFrom(_, _)
CapturesFrom(content, i) ==
    IF i > Len(content) THEN [ok |-> FALSE]
    ELSE IF MatchAt(content, i).ok THEN MatchAt(content, i)
    ELSE CapturesFrom(content, i + 1)

\* What a parse returns: ret says how it ended, version is meaningful when
\* ret = "Ok".
Parsed(ret, version) == [ret |-> ret, version |-> version]

\* BinaryVersion::parse of utils/binary_version.rs.
parse(present, content) ==
    IF ~present
    THEN Parsed("Err(Failed to open)", BinaryVersion(0, 0, 0))
    ELSE LET m == CapturesFrom(content, 1)
         IN  IF m.ok
             THEN Parsed("Ok", BinaryVersion(DecimalValue(m.caps[1]),
                                             DecimalValue(m.caps[2]),
                                             DecimalValue(m.caps[3])))
             ELSE Parsed("Ok", BinaryVersion(0, 0, 0))

\* str::split('.') as the sequence of its pieces.
RECURSIVE SplitDots(_)
SplitDots(str) ==
    IF \A k \in 1..Len(str) : str[k] # "."
    THEN <<str>>
    ELSE LET d == CHOOSE k \in 1..Len(str) :
                     str[k] = "." /\ \A j \in 1..(k - 1) : str[j] # "."
         IN  <<SubSeq(str, 1, d - 1)>> \o SplitDots(SubSeq(str, d + 1, Len(str)))

\* BinaryVersion::parse of binary_version.rs: the text of at most six
\* characters before the last dash, cut at its first dash, split at the
\* dots; the first three pieces that parse as u32 must be three.
parse_dash(present, content) ==
    IF ~present
    THEN Parsed("Err(IOError::open)", BinaryVersion(0, 0, 0))
    ELSE IF \A k \in 1..Len(content) : content[k] # "-"
    THEN Parsed("panic", BinaryVersion(0, 0, 0))
    ELSE LET dash_pos == CHOOSE k \in 1..Len(content) :
                            content[k] = "-" /\ \A j \in (k + 1)..Len(content) : content[j] # "-"
             start_pos == IF dash_pos > 6 THEN dash_pos - 6 ELSE 1
             version_slice == SubSeq(content, start_pos, Len(content))
             version_end == CHOOSE k \in 1..Len(version_slice) :
                               version_slice[k] = "-"
                               /\ \A j \in 1..(k - 1) : version_slice[j] # "-"
             version_str == SubSeq(version_slice, 1, version_end - 1)
             pieces == SplitDots(version_str)
             taken == SubSeq(pieces, 1, IF Len(pieces) < 3 THEN Len(pieces) ELSE 3)
             parts == SelectSeq(taken, ParsesAsU32)
         IN  IF Len(parts) # 3
             THEN Parsed("Err(VersionParse)", BinaryVersion(0, 0, 0))
             ELSE Parsed("Ok", BinaryVersion(DecimalValue(parts[1]),
                                             DecimalValue(parts[2]),
                                             DecimalValue(parts[3])))

\* The marker file is absent, or holds some text.
PvInit ==
    /\ op = "BinaryVersion::parse"
    /\ \E present \in BOOLEAN, content \in {<<>>} \cup SeqsUpTo(MarkerChars, MaxContent) :
          /\ ~present => content = <<>>
          /\ op_in = [present |-> present, content |-> content]
    /\ op_st = [pc |-> "call", regex |-> Parsed("none", BinaryVersion(0, 0, 0)),
                dash |-> Parsed("none", BinaryVersion(0, 0, 0))]
    /\ SeqIdle
    /\ RunIdle

\* Both parsers are given the file.
PvCall ==
    /\ op = "BinaryVersion::parse" /\ op_st.pc = "call"
    /\ op_st' = [pc |-> "returned",
                 regex |-> parse(op_in.present, op_in.content),
                 dash |-> parse_dash(op_in.present, op_in.content)]
    /\ UNCHANGED <<op, op_in, seqVars, runVars>>

PvNext == PvCall

ParseSpec == PvInit /\ [][PvNext]_vars

(***************************************************************************)
(* HDiff::load_diff_entries (DecodeSpec)                                   *)
(***************************************************************************)

\* The fields the format documents, and the fields of struct DiffEntry.
DocumentedFields ==
    {"source_file_name", "source_file_md5", "source_file_size",
     "target_file_name", "target_file_md5", "target_file_size",
     "patch_file_name"}

StructFields == DocumentedFields \cup {"patch_file_md5", "patch_file_size"}

\* The value entry e of a hdiffmap.json gives to a field: a path for a
\* name, a digest for an md5, a number for a size.
FieldValue(f, e) ==
    CASE f = "source_file_name" -> OldPath(e)
      [] f = "target_file_name" -> AssetPath(e)
      [] f = "patch_file_name" -> HdiffPath(e)
      [] f \in {"source_file_md5", "target_file_md5", "patch_file_md5"} -> <<"md5", f, e>>
      [] OTHER -> <<"size", f, e>>

\* The field sets a JSON object of diff_map may have: the documented seven,
\* the struct's nine, the nine and an unknown one, the nine less one.
ObjectFields ==
    {DocumentedFields, StructFields, StructFields \cup {"extra"}}
    \cup {StructFields \ {f} : f \in StructFields}

JsonObject(fields, e) == [f \in fields |-> FieldValue(f, e)]

\* #[derive(Deserialize)] on DiffEntry: every field of the struct must be
\* in the object (none is optional or defaulted), unknown fields are
\* ignored.
DecodeEntry(obj) ==
    IF StructFields \subseteq DOMAIN obj
    THEN [ok |-> TRUE, entry |-> [f \in StructFields |-> obj[f]]]
    ELSE [ok |-> FALSE, entry |-> <<>>]

\* load_diff_entries: the file must exist and decode as HDiffMap.
load_diff_entries(present, has_diff_map, objects) ==
    IF ~present
    THEN [ret |-> "Err(doesn't exist)", diff_map |-> <<>>]
    ELSE IF ~has_diff_map \/ \E k \in 1..Len(objects) : ~DecodeEntry(objects[k]).ok
    THEN [ret |-> "Err(hdiffmap.json structure changed!)", diff_map |-> <<>>]
    ELSE [ret |-> "Ok",
          diff_map |-> [k \in 1..Len(objects) |-> DecodeEntry(objects[k]).entry]]

DcInit ==
    /\ op = "load_diff_entries"
    /\ \E present, has_diff_map \in BOOLEAN,
          shape \in {<<>>} \cup SeqsUpTo(ObjectFields, MaxEntries) :
          /\ ~present => (shape = <<>> /\ ~has_diff_map)
          /\ ~has_diff_map => shape = <<>>
          /\ op_in = [present |-> present, has_diff_map |-> has_diff_map,
                      objects |-> [k \in 1..Len(shape) |-> JsonObject(shape[k], k)]]
    /\ op_st = [pc |-> "call", ret |-> "none", diff_map |-> <<>>]
    /\ SeqIdle
    /\ RunIdle

DcCall ==
    /\ op = "load_diff_entries" /\ op_st.pc = "call"
    /\ LET r == load_diff_entries(op_in.present, op_in.has_diff_map, op_in.objects)
       IN  op_st' = [pc |-> "returned", ret |-> r.ret, diff_map |-> r.diff_map]
    /\ UNCHANGED <<op, op_in, seqVars, runVars>>

DcNext == DcCall

DecodeSpec == DcInit /\ [][DcNext]_vars

(***************************************************************************)
(* One parallel patch batch, HDiff::patch / LDiff::patch (BatchSpec)       *)
(***************************************************************************)

\* The files a batch's entries name: sources and targets, and patch blobs.
BatchFiles == {AssetPath(1), AssetPath(2), OldPath(1)}
BatchBlobs == {HdiffPath(1), HdiffPath(2)}

\* What a file holds: the entries whose patching produced it, oldest first;
\* a file of the install root as found holds Original.
Original == <<>>
Absent == <<0>>

\* The diff maps of a batch: any sources and patch blobs, the targets
\* pairwise different.
Batches ==
    {b \in [Entries -> [source_file_name : BatchFiles \cup {EmptyPath},
                        target_file_name : BatchFiles,
                        patch_file_name  : BatchBlobs]] :
        \A a, c \in Entries : a # c => b[a].target_file_name # b[c].target_file_name}

\* hpatchz.exe on the files as they are when it runs: it succeeds when the
\* patch blob and the source (unless the source path is empty) are there,
\* and the target it writes is made from the source it read.
RunPatcher(d, e, disk) ==
    IF /\ disk[d.patch_file_name] # Absent
       /\ d.source_file_name = EmptyPath \/ disk[d.source_file_name] # Absent
    THEN [success |-> TRUE,
          target |-> IF d.source_file_name = EmptyPath THEN <<e>>
                     ELSE Append(disk[d.source_file_name], e)]
    ELSE [success |-> FALSE, target |-> Absent]

\* `let _ = fs::remove_file(&patch_file)` and, when source and target
\* differ, `let _ = fs::remove_file(&source_file)`.
RemoveAfterPatch(d, disk) ==
    [p \in DOMAIN disk |->
        IF p = d.patch_file_name
           \/ (p = d.source_file_name /\ d.source_file_name # d.target_file_name)
        THEN Absent ELSE disk[p]]

BtInit ==
    /\ op = "patch"
    /\ \E b \in Batches :
          op_in = [diff_entries |-> b,
                   disk |-> [p \in BatchFiles \cup BatchBlobs |-> Original]]
    /\ op_st = [at |-> [e \in Entries |-> "queued"],
                ret |-> [e \in Entries |-> "none"],
                wrote |-> [e \in Entries |-> Absent],
                disk |-> op_in.disk]
    /\ SeqIdle
    /\ RunIdle

\* A worker takes entry e and runs the patcher on it (Command::output()).
BtRun(e) ==
    /\ op = "patch" /\ op_st.at[e] = "queued"
    /\ LET d == op_in.diff_entries[e]
           r == RunPatcher(d, e, op_st.disk)
       IN  op_st' = IF r.success
                    THEN [op_st EXCEPT !.at[e] = "patched",
                                       !.wrote[e] = r.target,
                                       !.disk[d.target_file_name] = r.target]
                    ELSE [op_st EXCEPT !.at[e] = "done", !.ret[e] = "Ok(false)"]
    /\ UNCHANGED <<op, op_in, seqVars, runVars>>

\* patch_file removes what it consumed and returns Ok(true).
BtRemove(e) ==
    /\ op = "patch" /\ op_st.at[e] = "patched"
    /\ op_st' = [op_st EXCEPT !.at[e] = "done", !.ret[e] = "Ok(true)",
                    !.disk = RemoveAfterPatch(op_in.diff_entries[e], op_st.disk)]
    /\ UNCHANGED <<op, op_in, seqVars, runVars>>

BtNext == \E e \in Entries : BtRun(e) \/ BtRemove(e)

BatchSpec == BtInit /\ [][BtNext]_vars

(***************************************************************************)
(* LDiff::create_diff_entries on a whole manifest (EntriesSpec)            *)
(***************************************************************************)

\* The chunk files a descriptor may name, and the ones in the ldiff folder.
ChunkFileNames == {"chunk_a", "chunk_b"}

\* The descriptors of one asset's asset_data, their md5 and size told apart
\* by the asset i and the position j they are at.
DescriptorLists(i) ==
    {[j \in 1..Len(s) |->
         [original_file_path |-> s[j].original_file_path,
          original_file_md5  |-> <<"original_md5", i, j>>,
          original_file_size |-> 10 * i + j,
          chunk_file_name    |-> s[j].chunk_file_name]] :
       s \in {<<>>} \cup SeqsUpTo([original_file_path : OriginalPaths,
                                   chunk_file_name : ChunkFileNames], MaxDescs)}

\* Asset i of the manifest, with asset_data or without.
Asset(i, has_asset_data, assets) ==
    [asset_name     |-> AssetPath(i),
     asset_hash_md5 |-> <<"asset_md5", i>>,
     asset_size     |-> 100 * i,
     has_asset_data |-> has_asset_data,
     assets         |-> assets]

AssetsAt(i) ==
    {Asset(i, TRUE, d) : d \in DescriptorLists(i)} \cup {Asset(i, FALSE, <<>>)}

\* manifest_proto.assets: two assets.
ManifestProtos == {<<a1, a2>> : a1 \in AssetsAt(1), a2 \in AssetsAt(2)}

\* filter_map on asset_data, then flat_map over data.assets: the (asset,
\* update_asset) pairs in manifest order.
RECURSIVE AssetPairs(_, _)
AssetPairs(assets, i) ==
    IF i > Len(assets) THEN <<>>
    ELSE (IF assets[i].has_asset_data
          THEN [j \in 1..Len(assets[i].assets) |-> <<i, j>>]
          ELSE <<>>)
         \o AssetPairs(assets, i + 1)

\* The DiffEntry built for one pair.
EntryOf(asset, update_asset) ==
    [source_file_name |-> update_asset.original_file_path,
     source_file_md5  |-> update_asset.original_file_md5,
     source_file_size |-> update_asset.original_file_size,
     target_file_name |-> asset.asset_name,
     target_file_md5  |-> asset.asset_hash_md5,
     target_file_size |-> asset.asset_size,
     patch_file_name  |-> PatchFileName(asset.asset_name,
                                        update_asset.original_file_path)]

\* create_diff_entries: an error when a pair's chunk file is not in the
\* ldiff folder, else the entries of the pairs in order.
create_diff_entries(assets, chunk_files) ==
    LET pairs == AssetPairs(assets, 1)
    IN  IF \E k \in 1..Len(pairs) :
              assets[pairs[k][1]].assets[pairs[k][2]].chunk_file_name \notin chunk_files
        THEN [ret |-> "Err(not found in ldiff folder)", diff_entries |-> <<>>]
        ELSE [ret |-> "Ok",
              diff_entries |->
                 [k \in 1..Len(pairs) |->
                     EntryOf(assets[pairs[k][1]],
                             assets[pairs[k][1]].assets[pairs[k][2]])]]

CeInit ==
    /\ op = "create_diff_entries"
    /\ \E assets \in ManifestProtos, chunk_files \in SUBSET ChunkFileNames :
          op_in = [assets |-> assets, chunk_files |-> chunk_files]
    /\ op_st = [pc |-> "call", ret |-> "none", diff_entries |-> <<>>]
    /\ SeqIdle
    /\ RunIdle

CeCall ==
    /\ op = "create_diff_entries" /\ op_st.pc = "call"
    /\ LET r == create_diff_entries(op_in.assets, op_in.chunk_files)
       IN  op_st' = [pc |-> "returned", ret |-> r.ret, diff_entries |-> r.diff_entries]
    /\ UNCHANGED <<op, op_in, seqVars, runVars>>

CeNext == CeCall

EntriesSpec == CeInit /\ [][CeNext]_vars

(***************************************************************************)
(* LDiff::handle_delete_files on any tree and any manifest (WalkSpec)      *)
(***************************************************************************)

\* The files an install tree may hold, and one file outside game_path.
OutsidePath == <<"..", "other">>
TreePaths ==
    {<<"StarRail_Data", "a">>,
     <<"StarRail_Data", "sub", "b">>,
     <<"StarRail_Data", "sub", "persistent", "c">>,
     <<"StarRail_Data", "sub", "Persistent", "save">>,
     PersistentPath, RootUntrackedPath, OutsidePath}

\* The asset names a manifest may list.
TreeAssetNames ==
    {<<"StarRail_Data", "a">>, <<"StarRail_Data", "sub", "b">>, PersistentPath}

IsBelow(f, dir) == Len(f) > Len(dir) /\ SubSeq(f, 1, Len(dir)) = dir

\* fs::read_dir(dir): the entries of dir; path.is_dir()
ReadDir(fs, dir) == {SubSeq(f, 1, Len(dir) + 1) : f \in {g \in fs : IsBelow(g, dir)}}
IsDir(fs, path) == \E f \in fs : IsBelow(f, path)

\* A plausible slip: only a Persistent directory directly in dir is left out.
RECURSIVE WalkAll(_, _)
WalkAll(fs, dir) ==
    UNION {IF IsDir(fs, path) THEN WalkAll(fs, path) ELSE {path} : path \in ReadDir(fs, dir)}

walk_dir_excluding_TopLevelOnly(fs, dir, exclude_dir) ==
    UNION {IF IsDir(fs, path)
           THEN IF path[Len(path)] # exclude_dir THEN WalkAll(fs, path) ELSE {}
           ELSE {path} : path \in ReadDir(fs, dir)}

\* walk_dir_excluding: the files below dir, no directory named exclude_dir
\* being entered.
RECURSIVE walk_dir_excluding(_, _, _)
walk_dir_excluding(fs, dir, exclude_dir) ==
    UNION {IF IsDir(fs, path)
           THEN IF path[Len(path)] # exclude_dir
                THEN walk_dir_excluding(fs, path, exclude_dir)
                ELSE {}
           ELSE {path} : path \in ReadDir(fs, dir)}

WkInit ==
    /\ op = "walk_dir_excluding"
    /\ \E fs \in SUBSET TreePaths, asset_names \in SUBSET TreeAssetNames,
          walk_fails \in BOOLEAN :
          /\ op_in = [files |-> fs, ldiff_asset_set |-> asset_names,
                      walk_fails |-> walk_fails]
          /\ op_st = [pc |-> "walk", files |-> fs, files_to_delete |-> {},
                      result |-> "none"]
    /\ SeqIdle
    /\ RunIdle

\* The walk of game_path/StarRail_Data and the filter against the asset set.
WkWalk ==
    /\ op = "walk_dir_excluding" /\ op_st.pc = "walk"
    /\ op_st' =
          IF op_in.walk_fails
          THEN [op_st EXCEPT !.pc = "returned", !.result = "Err(Io)"]
          ELSE [op_st EXCEPT !.pc = "remove",
                   !.files_to_delete =
                      {f \in walk_dir_excluding(op_st.files, <<"StarRail_Data">>,
                                                "Persistent") :
                          f \notin op_in.ldiff_asset_set}]
    /\ UNCHANGED <<op, op_in, seqVars, runVars>>

\* The next file of the list (in the order read_dir gave) is removed, or
\* its removal fails and the error is returned.
WkRemove ==
    /\ op = "walk_dir_excluding" /\ op_st.pc = "remove"
    /\ \E f \in op_st.files_to_delete :
          \/ op_st' = [op_st EXCEPT !.files = @ \ {f}, !.files_to_delete = @ \ {f}]
          \/ op_st' = [op_st EXCEPT !.pc = "returned", !.result = "Err(Io)"]
    /\ UNCHANGED <<op, op_in, seqVars, runVars>>

WkEnd ==
    /\ op = "walk_dir_excluding" /\ op_st.pc = "remove"
    /\ op_st.files_to_delete = {}
    /\ op_st' = [op_st EXCEPT !.pc = "returned", !.result = "Ok"]
    /\ UNCHANGED <<op, op_in, seqVars, runVars>>

WkNext == WkWalk \/ WkRemove \/ WkEnd

WalkSpec == WkInit /\ [][WkNext]_vars

(***************************************************************************)
(* Claims about the sequencer (checked under SeqSpec)                      *)
(***************************************************************************)
SeqDone == seq_pc \in {"ok", "err"}

\* b is the exact successor of a: same major and minor, patch + 1.
IsSuccessor(a, b) ==
    /\ a.major_version = b.major_version
    /\ a.minor_version = b.minor_version
    /\ b.patch_version = a.patch_version + 1

VersionsOf(infos) == [k \in 1..Len(infos) |-> infos[k].update_version]

VersionSet(infos) == {infos[k].update_version : k \in 1..Len(infos)}

\* v0 -> vs[1] -> ... -> vs[n] is a valid, non-empty update chain.
ValidChain(v0, vs) ==
    /\ Len(vs) >= 1
    /\ IsSuccessor(v0, vs[1])
    /\ \A k \in 1..(Len(vs) - 1) : IsSuccessor(vs[k], vs[k + 1])

NextPatch(v) == BinaryVersion(v.major_version, v.minor_version, v.patch_version + 1)

\* The chain that the set S of candidate versions determines from v:
\* v's successor, its successor, ... for as long as S holds them.
RECURSIVE RunFrom(_, _)
RunFrom(v, S) ==
    IF NextPatch(v) \in S THEN <<NextPatch(v)>> \o RunFrom(NextPatch(v), S) ELSE <<>>

\* The archives fix_update_sequence dropped from the list.
Discarded == {k \in 1..Len(discovered) :
                 \A j \in 1..Len(update_info) : update_info[j].archive_path # k}

NoneAccepted == \A k \in 1..Len(verdicts) : ~verdicts[k]

\* C1: whenever fix_update_sequence succeeds, the retained chain is
\* non-empty, starts at the exact successor of the client version, and each
\* consecutive pair has the same major and minor and patch + 1.
C1_ChainValid ==
    seq_pc = "ok" => ValidChain(client_version, VersionsOf(update_info))

\* A success that kept two packages and dropped a leading and a trailing one.
C1_Witness ==
    /\ seq_pc = "ok"
    /\ Len(update_info) >= 2
    /\ Len(discovered) > Len(update_info)

\* C2 (as claimed): the resolved chain is a function of the client version
\* and the set of candidate versions alone, namely the run of successors the
\* set holds (the sorted-then-greedy chain), whatever the discovery order.
C2_OrderIndependent ==
    seq_pc = "ok" =>
        VersionsOf(update_info) = RunFrom(client_version, VersionSet(discovered))

\* C3 (as claimed): once a candidate has failed the successor test, no later
\* candidate is accepted.
C3_NoAcceptAfterAnyMismatch ==
    \A i, j \in 1..Len(verdicts) : (i < j /\ ~verdicts[i]) => ~verdicts[j]

\* C3 (amended): once a candidate has been accepted, the first later
\* candidate that fails the successor test ends the walk: it is the last
\* candidate visited, so no candidate after it is accepted. (Candidates
\* that fail before the first acceptance are skipped over.)
C3_StopsAtFirstMismatchAfterAccept ==
    \A i, j \in 1..Len(verdicts) :
        (i < j /\ verdicts[i] /\ ~verdicts[j]) =>
            (j = Len(verdicts) /\ seq_pc # "loop")

\* The walk accepted a candidate, met a mismatch, and left a candidate
\* unvisited behind it.
C3_Witness ==
    /\ seq_pc = "ok"
    /\ \E i, j \in 1..Len(verdicts) : i < j /\ verdicts[i] /\ ~verdicts[j]
    /\ Len(discovered) > Len(verdicts)

\* C4: when no candidate is accepted, fix_update_sequence fails with the
\* incompatible-version error whose 'from' is the client version and whose
\* 'to' is the version of the last candidate, and the list is unmodified.
C4_IncompatibleVersion ==
    (SeqDone /\ NoneAccepted) =>
        /\ seq_pc = "err"
        /\ seq_error = [kind |-> "IncompatibleVersion",
                        from |-> to_string(client_version),
                        to   |-> to_string(discovered[Len(discovered)].update_version)]
        /\ update_info = discovered

\* Client 2.x.x with 1.x.x candidates only, the first and the last differing.
C4_Witness ==
    /\ seq_pc = "err"
    /\ client_version.major_version = 2
    /\ \A k \in 1..Len(discovered) : discovered[k].update_version.major_version = 1
    /\ Len(discovered) >= 2
    /\ discovered[1].update_version # discovered[Len(discovered)].update_version

\* C5 (as claimed): no discarded candidate is the exact successor of the
\* last version of the returned chain.
C5_LongestChain ==
    seq_pc = "ok" =>
        \A k \in Discarded :
            ~IsSuccessor(update_info[Len(update_info)].update_version,
                         discovered[k].update_version)

(***************************************************************************)
(* Claims about update() (checked under Spec)                              *)
(***************************************************************************)
Pairs(p) == {<<p, e>> : e \in Entries}

\* C6: with the integrity check enabled, once verify_file has rejected an
\* entry of a package, verify_all returns an error, the run ends with that
\* error, and for that package no patch blob is materialised, the patcher
\* is never invoked and the delete phase does not run; no later package is
\* entered.
C6_VerifyFailureHalts ==
    \A p \in 1..NumJobs :
        (Pairs(p) \cap verify_failed # {}) =>
            /\ do_integrity_check
            /\ pkg = p
            /\ pc \in {"verify", "failed"}
            /\ pc = "verify" => BatchResult(batch_err) = "Err"
            /\ pc = "failed" => run_error = [kind |-> "Verify", pkg |-> p]
            /\ Pairs(p) \cap (invoked \cup materialised) = {}
            /\ p \notin deleted_pkgs
            /\ \A q \in started : q <= p

\* The first package of a longer chain was partially verified (one entry
\* accepted, another rejected) and the run has ended.
C6_Witness ==
    /\ pc = "failed"
    /\ run_error.kind = "Verify"
    /\ run_error.pkg = 1
    /\ NumJobs >= 2
    /\ Pairs(1) \cap verified # {}
    /\ Pairs(1) \cap verify_failed # {}

\* The patcher ran for entry e and exited with a failure status.
PatcherFailed(e) ==
    /\ patch_result[e].ret # "none"
    /\ patch_result[e].outcome.launched
    /\ ~patch_result[e].outcome.success

\* The patcher ran for entry e and exited successfully.
PatcherSucceeded(e) ==
    /\ patch_result[e].ret # "none"
    /\ patch_result[e].outcome.launched
    /\ patch_result[e].outcome.success

\* C7 (as claimed): patch_file returns true only when the patcher exited
\* successfully; whenever the patcher exits with a failure status it
\* returns false and the caller logs the entry as a failed patch, whatever
\* was written to stderr.
C7_TrueOnlyOnSuccess ==
    \A e \in Entries :
        /\ (patch_result[e].ret = "Ok(true)") => PatcherSucceeded(e)
        /\ PatcherFailed(e) => (patch_result[e].ret = "Ok(false)" /\ e \in log)

\* C8 (as claimed): when a patch batch has run every entry without a launch
\* failure, with the patcher failing for X and succeeding for Y, patch
\* returns Ok, Y's patch blob is gone and so is Y's source when it differs
\* from its target, X's run removed nothing, and X is logged.
C8_MixedBatch ==
    \A x, y \in Entries :
        (/\ pc = "patch" /\ pending = {} /\ launch_failed = {}
         /\ PatcherFailed(x) /\ PatcherSucceeded(y)) =>
            /\ BatchResult(batch_err) = "Ok"
            /\ diff_entries[y].patch_file_name \notin files
            /\ diff_entries[y].source_file_name # diff_entries[y].target_file_name
                  => diff_entries[y].source_file_name \notin files
            /\ patch_result[x].removed = {}
            /\ x \in log

\* C9: once the patcher could not be launched for an entry of a package,
\* the patch batch returns an error, the run ends with that error, the
\* delete phase of the package does not run and no later package is entered.
C9_LaunchFailureStops ==
    \A p \in launch_failed :
        /\ pkg = p
        /\ pc \in {"patch", "failed"}
        /\ pc = "patch" => BatchResult(batch_err) = "Err"
        /\ pc = "failed" => run_error = [kind |-> "PatchLaunch", pkg |-> p]
        /\ p \notin deleted_pkgs
        /\ \A q \in started : q <= p

\* The launch failed in the first package of a longer chain, after another
\* entry of the batch had been patched, and the run has ended.
C9_Witness ==
    /\ pc = "failed"
    /\ run_error.kind = "PatchLaunch"
    /\ 1 \in launch_failed
    /\ NumJobs >= 2
    /\ Cardinality(Pairs(1) \cap invoked) >= 2

Touched(p) ==
    \/ p \in started \cup extracted \cup deleted_pkgs \cup launch_failed
    \/ Pairs(p) \cap (verified \cup verify_failed \cup materialised \cup invoked) # {}

\* C11: the packages of the chain are processed one after another in chain
\* order: nothing of package N+1 runs before the delete phase of package N
\* has completed, and once a package has ended with a fatal error no later
\* package is processed.
C11_PackagesSequential ==
    /\ \A q \in 1..NumJobs :
          Touched(q) => (q \in started /\ q <= pkg
                         /\ \A p \in 1..(q - 1) : p \in deleted_pkgs)
    /\ run_error # NoError =>
          (pc = "failed" /\ pkg = run_error.pkg
           /\ \A q \in 1..NumJobs : q > run_error.pkg => ~Touched(q))

\* The second package of a chain is being patched, after the first one was
\* patched and its delete phase has run.
C11_Witness ==
    /\ NumJobs >= 2
    /\ pkg = 2
    /\ Pairs(2) \cap invoked # {}
    /\ Pairs(1) \subseteq invoked
    /\ 1 \in deleted_pkgs

\* C12 (as claimed): the verifier skips an entry that describes a brand-new
\* file (empty source name and hash): such an entry is never rejected, so a
\* diff map holding one still verifies when its other entries match.
C12_NewEntriesSkipped ==
    pc = "verify" =>
        \A e \in Entries :
            diff_entries[e].source_file_name = EmptyPath
                => <<pkg, e>> \notin verify_failed

(***************************************************************************)
(* Claims about Verifier::verify_file (checked under VerifySpec)           *)
(***************************************************************************)
\* C13: verify_file compares the length of the file on disk with the
\* declared source size before hashing: when they differ it fails with the
\* size-mismatch error carrying the expected size, the actual size and the
\* file name, and the content is never read for hashing; the hash-mismatch
\* error is only produced for a file whose size matched. (The result is the
\* one the verify phase of update() uses.)
C13_SizeBeforeHash ==
    /\ (op_in.file.exists /\ op_in.file.size # op_in.entry.source_file_size) =>
          /\ ~op_st.content_read
          /\ op_st.pc = "returned" =>
                op_st.result =
                    [kind |-> "FileSizeMismatchError",
                     expected |-> op_in.entry.source_file_size,
                     got |-> op_in.file.size,
                     file_name |-> JoinGamePath(op_in.entry.source_file_name)]
    /\ op_st.result.kind = "Md5MismatchError" =>
          (op_in.file.exists /\ op_in.file.size = op_in.entry.source_file_size)
    /\ op_st.pc = "returned" =>
          op_st.result.kind =
              verify_file(op_in.file.exists,
                          op_in.file.exists
                              /\ op_in.file.size = op_in.entry.source_file_size,
                          op_in.file.exists
                              /\ op_in.file.md5 = op_in.entry.source_file_md5)

\* A file one byte shorter than declared, whose digest is the declared one,
\* has been rejected.
C13_Witness ==
    /\ op_st.pc = "returned"
    /\ op_in.file.exists
    /\ op_in.file.size + 1 = op_in.entry.source_file_size
    /\ op_in.file.md5 = op_in.entry.source_file_md5
    /\ op_st.result.kind = "FileSizeMismatchError"

(***************************************************************************)
(* Claims about detect_update_mode (checked under DetectSpec)              *)
(***************************************************************************)
DmReturned == op_st.pc = "returned"

DmFailed == DmReturned /\ op_st.result \notin UpdateModes

\* C14 (as claimed): whenever a manifest and hdiffmap.json are both present
\* in the install root, in every configuration, detection fails and
\* update_mode stays unset.
C14_AmbiguousAlwaysFatal ==
    (DmReturned /\ op_in.manifest /\ op_in.hdiffmap) =>
        (DmFailed /\ update_mode = "None")

\* C14 (amended): when no archive is present and a manifest and
\* hdiffmap.json are both present, detection fails with the
\* hdiff-and-ldiff error and update_mode stays unset; when an archive is
\* present the two files are not looked at and the mode is Archives.
C14_AmbiguousFatalWithoutArchives ==
    (DmReturned /\ op_in.manifest /\ op_in.hdiffmap) =>
        IF op_in.archives = 0
        THEN op_st.result = "Err(HdiffAndLdiff)" /\ update_mode = "None"
        ELSE op_st.result = "Archives" /\ update_mode = "Archives"

\* No archive, both files present, detection has failed.
C14_Witness ==
    /\ DmReturned
    /\ op_in.archives = 0
    /\ op_in.manifest /\ op_in.hdiffmap
    /\ op_st.result = "Err(HdiffAndLdiff)"

\* The outcome C15 lists for an install root.
ListedOutcome(root) ==
    IF root.archives >= 1 THEN "Archives"
    ELSE IF root.manifest THEN "LegacyLdiff"
    ELSE IF root.hdiffmap THEN "LegacyHdiff"
    ELSE IF root.hdifffiles /\ root.deletefiles THEN "LegacyCustomMade"
    ELSE "Err(NoUpdateSource)"

NonBlank(lines) == SelectSeq(lines, LAMBDA l : l # EmptyPath)

\* C16: processing a deletion list attempts every listed path in order: a
\* path whose removal fails (missing file, permission) is logged, the paths
\* after it are still attempted, and the operation does not return an error
\* because of it (it returns Ok whenever the list itself could be read).
C16_FailuresDoNotStop ==
    /\ op_st.pc = "returned" =>
          /\ op_st.result = "Err(Io)" <=> (op_in.present /\ op_in.io_error # IoNever)
          /\ op_st.result = "Ok" =>
                /\ op_st.attempted = NonBlank(op_in.lines)
                /\ \A p \in ListedPaths :
                      (\E k \in 1..Len(op_in.lines) : op_in.lines[k] = p)
                          => op_st.disk[p] # "file"
    /\ \A k \in 1..Len(op_st.log) :
          \E j \in 1..Len(op_st.attempted) : op_st.attempted[j] = op_st.log[k]
    /\ \A p \in ListedPaths :
          op_st.disk[p] # op_in.disk[p] =>
              (op_in.disk[p] = "file" /\ op_st.disk[p] = "missing")

\* A list whose first path could not be removed and was logged, and whose
\* later path was removed; the operation returned Ok.
C16_Witness ==
    /\ op_st.pc = "returned"
    /\ op_st.result = "Ok"
    /\ Len(op_st.attempted) >= 2
    /\ Len(op_st.log) >= 1
    /\ op_st.log[1] = op_st.attempted[1]
    /\ \E p \in ListedPaths : op_in.disk[p] = "file" /\ op_st.disk[p] = "missing"

\* C17 (as claimed): a missing deletion-list file is not an error: the file
\* remover returns a value saying the list was not present.
C17_MissingListIsAValue ==
    (op_st.pc = "returned" /\ ~op_in.present) => op_st.result = "Ok(false)"

(***************************************************************************)
(* Claims about manifest reconciliation (checked under ReconcileSpec)      *)
(***************************************************************************)

\* f lies below a directory named Persistent.
UnderPersistent(f) == \E k \in 1..(Len(f) - 1) : f[k] = "Persistent"

\* C18 (as claimed): when reconciliation has returned Ok, every file left
\* under the install root is a manifest asset name or lies in the
\* persistent subtree, wherever under the install root it is.
C18_EveryUntrackedDeleted ==
    (op_st.pc = "returned" /\ op_st.result = "Ok") =>
        \A f \in op_st.files :
            f \in {AssetPath(e) : e \in Entries} \/ UnderPersistent(f)

(***************************************************************************)
(* Claims about chunk materialisation (checked under MaterialiseSpec)      *)
(***************************************************************************)

\* The chunk region a descriptor declares.
Region(d) ==
    SubSeq(ChunkBytes, d.hdiff_file_in_chunk_offset + 1,
           d.hdiff_file_in_chunk_offset + d.hdiff_file_size)

Overrun(d) == d.hdiff_file_in_chunk_offset + d.hdiff_file_size > Len(ChunkBytes)

C20_PatchNamesResolve ==
    (op_st.pc = "returned" /\ op_st.result = "Ok") =>
        \A i \in 1..Len(op_st.diff_entries) :
            \E b \in op_st.disk :
               /\ b.name = op_st.diff_entries[i].patch_file_name
               /\ b.bytes = Region(op_in.manifest[i])

(***************************************************************************)
(* Further claims about update() (checked under Spec)                      *)
(***************************************************************************)

\* C21: a fatal error stops the run without rollback. The step in which
\* update() returns the error undoes nothing (a failed load, verification,
\* materialisation or patch batch leaves the install root as it is, a
\* failed extraction only leaves what it had already written, a failed
\* reconciliation only what it had already removed), the history of what
\* was done is kept, and once the error is returned the install root never
\* changes again.
C21_NoRollback ==
    [][ run_error' # NoError =>
          IF run_error # NoError
          THEN files' = files /\ pc' = "failed"
          ELSE /\ pc' = "failed"
               /\ pc \in {"load", "verify", "materialise", "patch"} => files' = files
               /\ pc = "extract" => (files \subseteq files'
                                     /\ files' \subseteq files \cup ArchiveFiles)
               /\ pc = "delete" => files' \subseteq files
               /\ extracted' = extracted /\ materialised' = materialised
               /\ invoked' = invoked /\ verified' = verified ]_vars

\* The second package of a chain failed in its patch phase after one of its
\* entries was patched (its patch blob is gone); the first package had been
\* applied through its delete phase and the blobs the second brought are
\* otherwise still there.
C21_Witness ==
    /\ pc = "failed"
    /\ run_error.kind = "PatchLaunch"
    /\ run_error.pkg = 2
    /\ 1 \in deleted_pkgs
    /\ 2 \in extracted
    /\ \E e \in Entries : <<2, e>> \in invoked /\ HdiffPath(e) \notin files
    /\ \E e \in Entries : HdiffPath(e) \in files

(***************************************************************************)
(* Claims about verify_version (checked under VersionSpec)                 *)
(***************************************************************************)

\* b is a + 1 as numbers: no u32 is the successor of u32::MAX.
U32Successor(a, b) ==
    \/ a[2] < HalfMax /\ b = U32(a[1], a[2] + 1)
    \/ a[2] = HalfMax /\ a[1] < HalfMax /\ b = U32(a[1] + 1, 0)

\* C22 (as claimed): for all u32 triples verify_version returns true exactly
\* when major and minor are equal and next.patch is first.patch + 1, and
\* false otherwise, also when first.patch is u32::MAX.
C22_TrueExactlyOnPlusOne ==
    op_st.pc = "returned" =>
        LET f == op_in.first_version
            n == op_in.next_version
        IN  IF /\ f.major_version = n.major_version
               /\ f.minor_version = n.minor_version
               /\ U32Successor(f.patch_version, n.patch_version)
            THEN op_st.result = "true"
            ELSE op_st.result = "false"

(***************************************************************************)
(* Claims about BinaryVersion::parse (checked under ParseSpec)             *)
(***************************************************************************)

\* content[i..j] is a non-empty run of digits.
DigitRun(content, i, j) == i <= j /\ \A k \in i..j : content[k] \in Digits

\* A MAJOR.MINOR.PATCH pattern starts at position i of content.
PatternAt(content, i) ==
    \E j, k \in 1..Len(content) :
       /\ DigitRun(content, i, j - 1) /\ content[j] = "."
       /\ DigitRun(content, j + 1, k - 1) /\ content[k] = "."
       /\ k + 1 <= Len(content) /\ content[k + 1] \in Digits

HasPattern(content) == \E i \in 1..Len(content) : PatternAt(content, i)


\* The version the leftmost pattern of content spells, its patch number
\* being the pattern's one or two digits.
FirstPatternVersion(content) ==
    LET i == CHOOSE a \in 1..Len(content) :
                PatternAt(content, a) /\ \A b \in 1..(a - 1) : ~PatternAt(content, b)
        j == CHOOSE a \in i..Len(content) :
                content[a] = "." /\ \A b \in i..(a - 1) : content[b] # "."
        k == CHOOSE a \in (j + 1)..Len(content) :
                content[a] = "." /\ \A b \in (j + 1)..(a - 1) : content[b] # "."
        e == IF k + 2 <= Len(content) /\ content[k + 2] \in Digits THEN k + 2 ELSE k + 1
    IN  BinaryVersion(DecimalValue(SubSeq(content, i, j - 1)),
                      DecimalValue(SubSeq(content, j + 1, k - 1)),
                      DecimalValue(SubSeq(content, k + 1, e)))
\* C23 (as claimed): the regex-based parse never returns an error; for a
\* missing marker file or a content without a MAJOR.MINOR.PATCH pattern it
\* gives 0.0.0, and the dash-based parser fails on such input; otherwise
\* it gives the version of the first pattern.
C23_AbsentIsZeroVersion ==
    op_st.pc = "returned" =>
        /\ op_st.regex.ret = "Ok"
        /\ (~op_in.present \/ ~HasPattern(op_in.content)) =>
              /\ op_st.regex.version = BinaryVersion(0, 0, 0)
              /\ op_st.dash.ret # "Ok"
        /\ (op_in.present /\ HasPattern(op_in.content)) =>
              op_st.regex.version = FirstPatternVersion(op_in.content)

(***************************************************************************)
(* Claims about HDiff::load_diff_entries (checked under DecodeSpec)        *)
(***************************************************************************)

\* C24 (as claimed): a hdiffmap.json whose entries carry exactly the seven
\* documented fields is decoded into one DiffEntry per entry, in order,
\* every documented field having the value written in the file.
C24_SevenFieldsDecode ==
    (/\ op_st.pc = "returned"
     /\ op_in.present /\ op_in.has_diff_map
     /\ \A k \in 1..Len(op_in.objects) : DOMAIN op_in.objects[k] = DocumentedFields) =>
        /\ op_st.ret = "Ok"
        /\ Len(op_st.diff_map) = Len(op_in.objects)
        /\ \A k \in 1..Len(op_in.objects) :
              \A f \in DocumentedFields : op_st.diff_map[k][f] = op_in.objects[k][f]

(***************************************************************************)
(* Claims about a parallel patch batch (checked under BatchSpec)           *)
(***************************************************************************)

\* What entry e returns and writes when no other entry of the batch has
\* run: its outcome on the install root as the batch found it.
AloneOutcome(e) == RunPatcher(op_in.diff_entries[e], e, op_in.disk)

\* C25 (as claimed): in a batch whose targets are pairwise different, every
\* entry ends as it would alone, whatever the interleaving of the workers:
\* the same success or failure and the same target written.
C25_InterleavingIndependent ==
    \A e \in Entries :
        op_st.at[e] = "done" =>
            /\ op_st.ret[e] = IF AloneOutcome(e).success THEN "Ok(true)" ELSE "Ok(false)"
            /\ op_st.wrote[e] = AloneOutcome(e).target

(***************************************************************************)
(* Further claims about manifest reconciliation (checked under             *)
(* ReconcileSpec)                                                          *)
(***************************************************************************)

\* C26 (as claimed): a file of the walk that cannot be deleted is skipped:
\* handle_delete_files still returns Ok when the walk itself worked, and
\* every other untracked file of StarRail_Data is deleted.
C26_DeleteFailureSkipped ==
    (op_st.pc = "returned" /\ ~op_in.walk_fails) =>
        /\ op_st.result = "Ok"
        /\ \A f \in UntrackedFiles(op_in.files) :
              f \notin op_in.locked => f \notin op_st.files

(***************************************************************************)
(* Claims about LDiff::create_diff_entries (checked under EntriesSpec)     *)
(***************************************************************************)

\* The (asset, descriptor) pairs of the assets that carry patch data.
PatchDataPairs ==
    {<<i, j>> \in (1..2) \X (1..MaxDescs) :
        op_in.assets[i].has_asset_data /\ j <= Len(op_in.assets[i].assets)}

\* Entry d is the one the claim describes for descriptor j of asset i.
DescribesPair(d, i, j) ==
    LET asset == op_in.assets[i]
        descriptor == asset.assets[j]
    IN  /\ d.source_file_name = descriptor.original_file_path
        /\ d.source_file_md5 = descriptor.original_file_md5
        /\ d.source_file_size = descriptor.original_file_size
        /\ d.target_file_name = asset.asset_name
        /\ d.target_file_md5 = asset.asset_hash_md5
        /\ d.target_file_size = asset.asset_size
        /\ d.patch_file_name =
              IF descriptor.original_file_path = EmptyPath
              THEN Append(asset.asset_name, ".hdiff")
              ELSE Append(descriptor.original_file_path, ".hdiff")

\* C27: when create_diff_entries returns Ok it yields as many entries as
\* there are (asset, descriptor) pairs in assets with patch data, exactly
\* one of them for each pair, with the source fields of the descriptor, the
\* target fields of the asset and the patch name made from the original
\* path, or from the asset name when the original path is empty.
C27_OneEntryPerPair ==
    (op_st.pc = "returned" /\ op_st.ret = "Ok") =>
        /\ Len(op_st.diff_entries) = Cardinality(PatchDataPairs)
        /\ \A p \in PatchDataPairs :
              Cardinality({k \in 1..Len(op_st.diff_entries) :
                              DescribesPair(op_st.diff_entries[k], p[1], p[2])}) = 1

\* A manifest with an asset without patch data and an asset with two
\* descriptors, one with an original path and one without.
C27_Witness ==
    /\ op_st.pc = "returned" /\ op_st.ret = "Ok"
    /\ Len(op_st.diff_entries) = 2
    /\ \E i \in 1..2 : ~op_in.assets[i].has_asset_data
    /\ \E k \in 1..2 : op_st.diff_entries[k].source_file_name = EmptyPath
    /\ \E k \in 1..2 : op_st.diff_entries[k].source_file_name # EmptyPath

(***************************************************************************)
(* Claims about the integrity check in update() (checked under Spec)       *)
(***************************************************************************)

\* C28 (as claimed): with the integrity check enabled, a package one of
\* whose entries has been given to the patcher has had every entry
\* verified, whatever its patch method and the update mode.
C28_VerifiedWhateverMethod ==
    do_integrity_check =>
        \A p \in 1..NumJobs :
            Pairs(p) \cap invoked # {} => Pairs(p) \subseteq verified

\* C29 (as claimed): when the integrity check of an archive package has
\* failed, nothing of that package has been written into the install root:
\* its archive was not extracted there and no patch blob of it was
\* materialised there.
C29_VerifyFailureLeavesRoot ==
    (pc = "failed" /\ run_error.kind = "Verify" /\ update_mode = "Archives") =>
        /\ run_error.pkg \notin extracted
        /\ Pairs(run_error.pkg) \cap materialised = {}
        /\ \A e \in Entries : <<run_error.pkg, e>> \notin invoked

(***************************************************************************)
(* Claims about what reconciliation may delete (checked under WalkSpec)    *)
(***************************************************************************)

\* C30: whatever the manifest and the tree, and at every moment of the
\* reconciliation, a file it has deleted is no asset name of the manifest,
\* is not below a directory named Persistent, and is inside the install
\* root; nothing is ever created.
C30_NeverDeletesProtected ==
    /\ op_st.files \subseteq op_in.files
    /\ \A f \in op_in.files \ op_st.files :
          /\ f \notin op_in.ldiff_asset_set
          /\ ~UnderPersistent(f)
          /\ f # OutsidePath

\* Reconciliation returned Ok having deleted files, in a tree that holds an
\* asset of the manifest, a file in a nested Persistent directory, the
\* top-level persistent file and a file outside the install root.
C30_Witness ==
    /\ op_st.pc = "returned" /\ op_st.result = "Ok"
    /\ op_in.files # op_st.files
    /\ <<"StarRail_Data", "a">> \in op_in.ldiff_asset_set \cap op_st.files
    /\ {<<"StarRail_Data", "sub", "Persistent", "save">>, PersistentPath, OutsidePath}
          \subseteq op_st.files

====
